---- MODULE Spec2Model ----
(***************************************************************************)
(* Timeline clock, proximity index and reveal engine of the road-trip map. *)
(*                                                                         *)
(* The store (src/src/stores/roadtrip.ts, and its Firestore variant in     *)
(* src/unnamed/part_000), the timeline toolbar component                   *)
(* (src/unnamed/part_005) and the TimelinePlayer component                 *)
(* (src/src/components/TimelinePlayer.vue) are modelled as one state       *)
(* machine. The page renders one of the two clock components; they share   *)
(* no state (TimelinePlayer keeps its own position and only emits events). *)
(*                                                                         *)
(* Conventions                                                             *)
(*  - A JavaScript number that may also be null or NaN is a record         *)
(*    [t, v]: Num(n), Null or NaN.                                         *)
(*  - Timestamps are integer milliseconds, as Date.getTime() returns them. *)
(*    An ISO time string of a segment is modelled by the instant it        *)
(*    denotes (GetTime); all strings of the model are valid dates.         *)
(*  - Slider positions are percentages in units of 1/PosScale percent, so  *)
(*    that the playback increment 100/(30*60) percent and the three        *)
(*    decimals of toFixed(3) are both whole numbers of units. Real         *)
(*    arithmetic is exact (IEEE rounding error is not modelled).           *)
(*  - Coordinates are tenths of a degree on one meridian (lng = 0), where  *)
(*    the haversine formula reduces to R * |dLat| exactly.                 *)
(*  - Destination indices are 1-based (the code's index + 1).              *)
(***************************************************************************)
EXTENDS Integers, Sequences, FiniteSets, TLC

VARIABLES
  segments,               \* store: ref<Segment[]>, [t |-> "array", v |-> <<...>>] or Undefined
  loading,                \* store: ref(true)
  error,                  \* store: ref<string | null>, "null" stands for null
  dataSource,             \* store: 'default' | 'custom'
  dateRange,              \* store: ref<[Date, Date] | null>, <<>> stands for null
  timelineTimestamp,      \* store: ref<number | null>
  isTimelineModeActive,   \* store: ref(false)
  viewMode,               \* store: 'timeline' | 'day-by-day'
  selectedDay,            \* store: ref(1)
  destinations,           \* store: ref<Destination[]>
  segmentDestinationCache,\* store: Map<startTime, Set<destination index>>
  loads,                  \* the load calls that are suspended at an await, in start order
  isPlaying,              \* toolbar: ref(false)
  sliderValue,            \* toolbar: ref(0), the clock position
  playbackSpeed,          \* toolbar: ref(1)
  animationFrame,         \* toolbar: handle of the last requested playback frame, 0 = null
  rafId,                  \* toolbar: handle of the slider frame, 0 = null
  pendingSliderUpdate,    \* toolbar: let pendingSliderUpdate = false
  rafQueue,               \* browser: the pending requestAnimationFrame callbacks
  mounted,                \* toolbar: whether onMounted has run
  searchQuery,            \* store: ref(''), as a sequence of letters
  latestLoad,             \* history: what became of the load call that was started last
  timelinePlayer,         \* TimelinePlayer: isPlaying, currentTime, playbackSpeed,
                          \* animationFrame (0 = null) and the handles of its pending frames
  rendered                \* the clock component the page renders

vars == << segments, loading, error, dataSource, dateRange, timelineTimestamp,
           isTimelineModeActive, viewMode, selectedDay, destinations,
           segmentDestinationCache, loads, isPlaying, sliderValue, playbackSpeed,
           animationFrame, rafId, pendingSliderUpdate, rafQueue, mounted,
           searchQuery, latestLoad, timelinePlayer, rendered >>

storeVars == << segments, loading, error, dataSource, dateRange, timelineTimestamp,
                isTimelineModeActive, viewMode, selectedDay, destinations,
                segmentDestinationCache, loads, searchQuery, latestLoad >>

clockVars == << isPlaying, sliderValue, playbackSpeed, animationFrame, rafId,
                pendingSliderUpdate, rafQueue, mounted, timelinePlayer, rendered >>

----------------------------------------------------------------------------
(* JavaScript values *)

Num(n) == [t |-> "number", v |-> n]
NaN == [t |-> "NaN", v |-> 0]
Null == [t |-> "null", v |-> 0]
IsNum(x) == x.t = "number"

\* !x for a number | null
Falsy(x) == x.t # "number" \/ x.v = 0

Arr(s) == [t |-> "array", v |-> s]
Undefined == [t |-> "undefined", v |-> << >>]
IsArray(x) == x.t = "array"

Min2(a, b) == IF a <= b THEN a ELSE b
Max2(a, b) == IF a >= b THEN a ELSE b

\* Math.min / Math.max of two numbers: NaN if either is NaN
MathMin(a, b) == IF IsNum(a) /\ IsNum(b) THEN Num(Min2(a.v, b.v)) ELSE NaN
MathMax(a, b) == IF IsNum(a) /\ IsNum(b) THEN Num(Max2(a.v, b.v)) ELSE NaN

RECURSIVE SeqMin(_), SeqMax(_)
SeqMin(s) == IF Len(s) = 1 THEN s[1] ELSE Min2(s[1], SeqMin(Tail(s)))
SeqMax(s) == IF Len(s) = 1 THEN s[1] ELSE Max2(s[1], SeqMax(Tail(s)))

----------------------------------------------------------------------------
(* Bounds of the model *)

MaxSegments == 2      \* longest segment list of a loaded dataset (SpecReveal)
MaxFeedSegments == 1  \* longest segment list of a document while loads overlap (SpecLoad)
MaxDest == 2          \* number of compiled-in destinations
MaxInFlight == 2      \* load calls suspended at the same time
MaxTimestamp == 4     \* largest timestamp handed to setTimelineTimestamp

----------------------------------------------------------------------------
(* Data: coordinate strings, segments, destinations, feeds *)

\* One part of a "lat, lng" string after .replace(/deg/g, '').split(', '):
\* a numeric literal (tenths of a degree) or text parseFloat cannot read.
Tok(n) == [num |-> TRUE, val |-> n]
BadTok == [num |-> FALSE, val |-> 0]
parseFloat(tok) == IF tok.num THEN Num(tok.val) ELSE NaN

\* "lat, 0" on the model's meridian; a string without ", "; a string whose
\* latitude is not numeric
LatLng(lat) == << Tok(lat), Tok(0) >>
OnePart(lat) == << Tok(lat) >>
BadLat == << BadTok, Tok(0) >>

\* Strings that are searched are sequences of lower-case letters
Home == << "h", "o", "m", "e" >>
Work == << "w", "o", "r", "k" >>

\* segment.visit: absent, or its placeLocation.latLng and its semanticType
NoVisit == [present |-> FALSE, latLng |-> << >>, semanticType |-> << >>]
TypedVisit(str, type) == [present |-> TRUE, latLng |-> str, semanticType |-> type]
Visit(str) == TypedVisit(str, Home)

Seg(st, en, vis, path, dist) ==
  [startTime |-> st, endTime |-> en, visit |-> vis, timelinePath |-> path,
   distanceMeters |-> dist]

\* new Date(isoString).getTime()
GetTime(iso) == iso

\* The segments feeds are made of. Destinations sit at latitudes 0.0, 1.0, ...
\* degrees: 0.1 deg is 11 km from destination 1, 0.9 deg is 11 km from
\* destination 2, 0.5 deg is 56 km from both.
Pt(str) == [point |-> str]
SegmentPool ==
  { Seg(0, 0, Visit(LatLng(1)), << >>, 0),
    Seg(1, 2, NoVisit, << Pt(LatLng(5)), Pt(LatLng(9)) >>, 1000),
    Seg(1, 3, Visit(LatLng(5)), << Pt(LatLng(1)) >>, 2000),
    Seg(2, 2, Visit(OnePart(1)), << Pt(LatLng(5)) >>, 0),
    Seg(3, 3, TypedVisit(BadLat, Work), << Pt(LatLng(9)), Pt(LatLng(5)) >>, 0) }

RECURSIVE SeqsUpTo(_, _)
SeqsUpTo(S, n) ==
  IF n = 0 THEN { << >> }
  ELSE LET shorter == SeqsUpTo(S, n - 1)
       IN shorter \cup { Append(s, x) : s \in shorter, x \in S }

\* The valid semanticSegments arrays a feed or an uploaded document can hold
SegmentLists == SeqsUpTo(SegmentPool, MaxSegments)

\* A parsed JSON document: its semanticSegments field
Document(list) == [semanticSegments |-> Arr(list)]
NoSegmentsDocument == [semanticSegments |-> Undefined]
FeedDocuments ==
  { Document(l) : l \in SeqsUpTo(SegmentPool, MaxFeedSegments) } \cup { NoSegmentsDocument }

\* majorDestinations: destination i at latitude (i - 1) degrees
majorDestinations ==
  [i \in 1..MaxDest |-> [name |-> i, location |-> [lat |-> 10 * (i - 1), lng |-> 0]]]

\* TRIP_START_DATE / TRIP_END_DATE of constants/trip, used while no segment is loaded
TRIP_START_DATE == 1
TRIP_END_DATE == 4

----------------------------------------------------------------------------
(* GeoMath and the proximity index *)

Abs(n) == IF n < 0 THEN 0 - n ELSE n

\* getDistanceFromLatLng, in meters instead of km. For two points of one
\* meridian (dLng = 0) the haversine terms reduce to a = sin^2(dLat/2),
\* c = |dLat| in radians, d = R * c = 6371 km * pi/180 * |dLat|, which is
\* 11119 m per tenth of a degree.
getDistanceFromLatLng(lat1, lng1, lat2, lng2) == 11119 * Abs(lat2 - lat1)

\* if (distance < 50), in meters
ThresholdMeters == 50000
WithinThreshold(distance) == distance < ThresholdMeters

\* One candidate point of buildDestinationCache: split the string, parse both
\* parts, skip it unless there are two parts and both are numbers, and test
\* the distance to the destination.
PointIsNear(str, dest) ==
  /\ Len(str) >= 2
  /\ LET lat == parseFloat(str[1])
         lng == parseFloat(str[2])
     IN /\ IsNum(lat) /\ IsNum(lng)
        /\ WithinThreshold(getDistanceFromLatLng(dest.location.lat, dest.location.lng,
                                                 lat.v, lng.v))

\* isNear when a visit location that cannot be read ends the test of the
\* segment: its path points are not looked at
IsNearVisitFirst(segment, dest) ==
  IF segment.visit.present
  THEN PointIsNear(segment.visit.latLng, dest)
  ELSE \E k \in 1..Len(segment.timelinePath) :
         k \in {1, Len(segment.timelinePath)} /\ PointIsNear(segment.timelinePath[k].point, dest)

\* The body of destinations.forEach in buildDestinationCache: isNear
IsNear(segment, dest) ==
  LET visitNear == segment.visit.present /\ PointIsNear(segment.visit.latLng, dest)
      path == segment.timelinePath
      pointsToCheck == IF Len(path) > 0 THEN << path[1], path[Len(path)] >> ELSE << >>
  IN \/ visitNear
     \/ /\ ~visitNear
        /\ \E k \in 1..Len(pointsToCheck) : PointIsNear(pointsToCheck[k].point, dest)

NearbyDests(segment, dests) == { d \in 1..Len(dests) : IsNear(segment, dests[d]) }

\* cache.set(key, value) on a Map modelled as a function
MapSet(map, key, value) ==
  [k \in (DOMAIN map) \cup {key} |-> IF k = key THEN value ELSE map[k]]
EmptyMap == << >>

\* if (nearbyDests.size > 0) cache.set(segment.startTime, nearbyDests)
CacheStep(cache, segment, dests) ==
  LET nearbyDests == NearbyDests(segment, dests)
  IN IF Cardinality(nearbyDests) > 0 THEN MapSet(cache, segment.startTime, nearbyDests)
     ELSE cache

\* buildDestinationCache: segments.forEach over a fresh Map
RECURSIVE BuildFrom(_, _, _, _)
BuildFrom(cache, list, i, dests) ==
  IF i > Len(list) THEN cache
  ELSE BuildFrom(CacheStep(cache, list[i], dests), list, i + 1, dests)

\* buildDestinationCache filling the store's current Map instead of a fresh one
buildDestinationCacheOnto(list, dests) == BuildFrom(segmentDestinationCache, list, 1, dests)

buildDestinationCache(list, dests) == BuildFrom(EmptyMap, list, 1, dests)

----------------------------------------------------------------------------
(* Computed properties of the store *)

StartTimes(list) == [i \in 1..Len(list) |-> GetTime(list[i].startTime)]
EndTimes(list) == [i \in 1..Len(list) |-> GetTime(list[i].endTime)]

\* tripStartDate / tripEndDate / tripDurationMs / tripTotalDays, as getTime();
\* tripStartDateOrEpoch is tripStartDate without its default for no segments
tripStartDateOrEpoch(list) == IF Len(list) = 0 THEN 0 ELSE SeqMin(StartTimes(list))
tripStartDate(list) == IF Len(list) = 0 THEN TRIP_START_DATE ELSE SeqMin(StartTimes(list))
tripEndDate(list) == IF Len(list) = 0 THEN TRIP_END_DATE ELSE SeqMax(EndTimes(list))
tripDurationMs(list) == tripEndDate(list) - tripStartDate(list)

DayMs == 24 * 60 * 60 * 1000
\* Math.ceil(a / b) for b > 0
CeilDiv(a, b) == 0 - ((0 - a) \div b)
tripTotalDays(list) == CeilDiv(tripDurationMs(list), DayMs)

\* selectedDaySegments with the upper end of the day included
selectedDaySegmentsClosed(list, mode, day) ==
  IF mode # "day-by-day" THEN << >>
  ELSE LET dayStartTime == tripStartDate(list) + (day - 1) * DayMs
           dayEndTime == dayStartTime + DayMs
           InDay(segment) == /\ GetTime(segment.startTime) >= dayStartTime
                             /\ GetTime(segment.startTime) <= dayEndTime
       IN SelectSeq(list, InDay)

\* selectedDaySegments
selectedDaySegments(list, mode, day) ==
  IF mode # "day-by-day" THEN << >>
  ELSE LET dayStartTime == tripStartDate(list) + (day - 1) * DayMs
           dayEndTime == dayStartTime + DayMs
           InDay(segment) == /\ GetTime(segment.startTime) >= dayStartTime
                             /\ GetTime(segment.startTime) < dayEndTime
       IN SelectSeq(list, InDay)

\* String.prototype.includes
Includes(str, sub) ==
  \E k \in 0..(Len(str) - Len(sub)) : SubSeq(str, k + 1, k + Len(sub)) = sub

\* filteredSegments: a non-empty search query keeps the visits whose
\* semanticType includes it; the date range, when set, keeps the segments that
\* start inside it
filteredSegments(list, range, query) ==
  LET Matches(seg) == seg.visit.present /\ Includes(seg.visit.semanticType, query)
      InRange(seg) == /\ GetTime(seg.startTime) >= range[1]
                      /\ GetTime(seg.startTime) <= range[2]
      searched == IF query # << >> THEN SelectSeq(list, Matches) ELSE list
  IN IF range # << >> THEN SelectSeq(searched, InRange) ELSE searched

\* The reveal test with the comparison turned round, against which C4 is
\* tested
StartsAtOrAfter(seg, timestamp) ==
  IsNum(timestamp) /\ GetTime(seg.startTime) >= timestamp.v

\* segmentStart < timelineTimestamp: the reveal comparison made strict
StartsBefore(seg, timestamp) == IsNum(timestamp) /\ GetTime(seg.startTime) < timestamp.v

\* segmentStart <= timelineTimestamp (false when the timestamp is NaN)
StartsBy(seg, timestamp) == IsNum(timestamp) /\ GetTime(seg.startTime) <= timestamp.v

\* timelineSegments
timelineSegments(list, range, query, active, timestamp) ==
  IF ~active \/ timestamp = Null THEN filteredSegments(list, range, query)
  ELSE LET Revealed(seg) == StartsBy(seg, timestamp)
       IN SelectSeq(list, Revealed)

\* The guard of reachedDestinations without its mode test, against which C6
\* is tested
ShowsAllReachedUnset(active, timestamp) == Falsy(timestamp)

\* The guard of reachedDestinations that marks every destination reached
ShowsAllReached(active, timestamp) == ~active \/ Falsy(timestamp)

\* reachedDestIndices of reachedDestinations: the union of the cache entries
\* of the revealed segments
ReachedDestIndices(revealed, cache) ==
  UNION { cache[revealed[i].startTime] :
          i \in { j \in 1..Len(revealed) : revealed[j].startTime \in DOMAIN cache } }

\* reachedDestinations, as the sequence of the reached flags
reachedDestinations(list, range, query, active, timestamp, cache, dests) ==
  IF ShowsAllReached(active, timestamp) THEN [d \in 1..Len(dests) |-> TRUE]
  ELSE LET currentSegments == timelineSegments(list, range, query, active, timestamp)
           reachedDestIndices == ReachedDestIndices(currentSegments, cache)
       IN [d \in 1..Len(dests) |-> d \in reachedDestIndices]

----------------------------------------------------------------------------
(* The statistics of the store *)

\* array.reduce((sum, x) => sum + x, 0)
RECURSIVE Sum(_)
Sum(s) == IF Len(s) = 0 THEN 0 ELSE s[1] + Sum(Tail(s))

\* Math.round(num / den) for num >= 0, den > 0
MathRound(num, den) == (2 * num + den) \div (2 * den)

\* 1609.34 m per mile, in hundredths of a meter, and 1000 m per km
CentimetersPerMile == 160934
MetersPerKm == 1000

\* totalPoints / totalVisits / totalDistance
totalPoints(list) == Sum([i \in 1..Len(list) |-> Len(list[i].timelinePath)])
totalVisits(list) ==
  LET HasVisit(segment) == segment.visit.present IN Len(SelectSeq(list, HasVisit))
totalDistance(list) == Sum([i \in 1..Len(list) |-> list[i].distanceMeters])

\* currentPoints / currentVisits / currentDistance
currentPoints(list, range, query, active, timestamp) ==
  IF ~active THEN totalPoints(list)
  ELSE totalPoints(timelineSegments(list, range, query, active, timestamp))
currentVisits(list, range, query, active, timestamp) ==
  IF ~active THEN totalVisits(list)
  ELSE totalVisits(timelineSegments(list, range, query, active, timestamp))
currentDistance(list, range, query, active, timestamp) ==
  IF ~active THEN totalDistance(list)
  ELSE totalDistance(timelineSegments(list, range, query, active, timestamp))

\* currentDistanceMiles with every segment's distance rounded on its own
currentDistanceMilesPerSegment(list, range, query, active, timestamp) ==
  LET shown == IF ~active THEN list
               ELSE timelineSegments(list, range, query, active, timestamp)
  IN Sum([i \in 1..Len(shown) |-> MathRound(100 * shown[i].distanceMeters, CentimetersPerMile)])

\* currentDistanceMiles / currentDistanceKm
currentDistanceMiles(list, range, query, active, timestamp) ==
  MathRound(100 * currentDistance(list, range, query, active, timestamp), CentimetersPerMile)
currentDistanceKm(list, range, query, active, timestamp) ==
  MathRound(currentDistance(list, range, query, active, timestamp), MetersPerKm)

----------------------------------------------------------------------------
(* Month colors. The model's calendar has years of 12 equal months that     *)
(* start at time 0 with January of EpochYear, in the local time zone.       *)

MonthMs == 2
EpochYear == 1970

\* date.getFullYear() / date.getMonth() (0-11) of new Date(segment.startTime)
getFullYear(iso) == EpochYear + GetTime(iso) \div (12 * MonthMs)
getMonth(iso) == (GetTime(iso) % (12 * MonthMs)) \div MonthMs

\* String(n) as its sequence of decimal digits, and the order sort() uses
\* without a compare function: by the strings' code units
RECURSIVE Digits(_)
Digits(n) == IF n < 10 THEN << n >> ELSE Append(Digits(n \div 10), n % 10)
RECURSIVE StringLess(_, _)
StringLess(a, b) ==
  IF Len(b) = 0 THEN FALSE
  ELSE IF Len(a) = 0 THEN TRUE
  ELSE IF a[1] # b[1] THEN a[1] < b[1]
  ELSE StringLess(Tail(a), Tail(b))

\* The number of colors of colorPalette; a color is its index in the palette
PaletteLength == 12

\* The years and the month keys "year-month" of the segments
YearsSet(list) == { getFullYear(list[i].startTime) : i \in 1..Len(list) }
MonthsSet(list) ==
  { << getFullYear(list[i].startTime), getMonth(list[i].startTime) >> : i \in 1..Len(list) }

\* monthColors with the colors by calendar month whatever the years are
monthColorsByMonth(list) ==
  [ colorMap |-> [key \in MonthsSet(list) |-> key[2] % PaletteLength],
    months |-> MonthsSet(list),
    isMultiYear |-> Cardinality(YearsSet(list)) > 1 ]

\* monthColors: colorMap as a function from month keys to palette indices,
\* the set of sortedMonths, and isMultiYear
monthColors(list) ==
  LET yearsSet == YearsSet(list)
      monthsSet == MonthsSet(list)
      isMultiYear == Cardinality(yearsSet) > 1
      yearIndex(year) ==
        Cardinality({ y \in yearsSet : StringLess(Digits(y), Digits(year)) })
  IN IF Len(list) = 0
     THEN [colorMap |-> << >>, months |-> {}, isMultiYear |-> FALSE]
     ELSE [ colorMap |->
              IF isMultiYear
              THEN [key \in yearsSet \X (0..11) |-> yearIndex(key[1]) % PaletteLength]
              ELSE [key \in monthsSet |-> key[2] % PaletteLength],
            months |-> monthsSet,
            isMultiYear |-> isMultiYear ]

\* The string `${year}-${month}` as its code units in order: the digits, and
\* -1 for the hyphen, which sorts before every digit
MonthKeyString(key) == Digits(key[1]) \o << 0 - 1 >> \o Digits(key[2])

\* Array.from(set).sort() of month keys, and of years
RECURSIVE SortedKeys(_)
SortedKeys(keys) ==
  IF keys = {} THEN << >>
  ELSE LET first == CHOOSE k \in keys :
                      \A other \in keys \ {k} :
                        StringLess(MonthKeyString(k), MonthKeyString(other))
       IN << first >> \o SortedKeys(keys \ {first})
RECURSIVE SortedYears(_)
SortedYears(years) ==
  IF years = {} THEN << >>
  ELSE LET first == CHOOSE y \in years :
                      \A other \in years \ {y} : StringLess(Digits(y), Digits(other))
       IN << first >> \o SortedYears(years \ {first})

\* sortedMonths of monthColors
sortedMonths(list) == SortedKeys(MonthsSet(list))

\* new Date(year, month, 1).getTime() in the model's calendar
MonthStart(year, month) == (12 * (year - EpochYear) + month) * MonthMs

\* percent = (end - tripStart) / tripDurationMs * 100 as a fraction; a zero
\* denominator is the division by a zero duration
BoundaryPercent(end, list) ==
  [num |-> 100 * (end - tripStartDate(list)), den |-> tripDurationMs(list)]

\* monthBoundaries: one marker per observed year (multi-year) or per observed
\* month, in the order of sortedYears / sortedMonths
monthBoundaries(list) ==
  LET colors == monthColors(list)
      months == sortedMonths(list)
      years == SortedYears({ key[1] : key \in colors.months })
  IN IF colors.isMultiYear
     THEN [i \in 1..Len(years) |->
             [monthKey |-> << years[i] >>,
              percent |-> BoundaryPercent(MonthStart(years[i] + 1, 0), list),
              color |-> colors.colorMap[<< years[i], 0 >>]]]
     ELSE [i \in 1..Len(months) |->
             [monthKey |-> months[i],
              percent |-> BoundaryPercent(MonthStart(months[i][1], months[i][2] + 1), list),
              color |-> colors.colorMap[months[i]]]]

----------------------------------------------------------------------------
(* Media (src/unnamed/part_000) *)

\* mediaTime >= segStart && mediaTime <= segEnd (false for an invalid date)
ContainsTime(segment, mediaTime) ==
  /\ IsNum(mediaTime)
  /\ mediaTime.v >= GetTime(segment.startTime)
  /\ mediaTime.v <= GetTime(segment.endTime)

\* The forEach of assignSegmentIndex from index i on (0-based), with
\* minDiff = -1 standing for Infinity
RECURSIVE NearestFrom(_, _, _, _, _)
NearestFrom(list, mediaTime, i, nearestIndex, minDiff) ==
  IF i >= Len(list) THEN nearestIndex
  ELSE LET closer == /\ IsNum(mediaTime)
                     /\ \/ minDiff = 0 - 1
                        \/ Abs(mediaTime.v - GetTime(list[i + 1].startTime)) < minDiff
       IN IF closer
          THEN NearestFrom(list, mediaTime, i + 1, i,
                           Abs(mediaTime.v - GetTime(list[i + 1].startTime)))
          ELSE NearestFrom(list, mediaTime, i + 1, nearestIndex, minDiff)

\* assignSegmentIndex without its first loop: always the nearest start
assignSegmentIndexNearest(list, mediaTime) == NearestFrom(list, mediaTime, 0, 0, 0 - 1)

\* assignSegmentIndex(timestamp) with mediaTime = new Date(timestamp).getTime();
\* the result is a 0-based array index
assignSegmentIndex(list, mediaTime) ==
  IF \E k \in 1..Len(list) : ContainsTime(list[k], mediaTime)
  THEN (CHOOSE k \in 1..Len(list) :
          /\ ContainsTime(list[k], mediaTime)
          /\ \A j \in 1..(k - 1) : ~ContainsTime(list[j], mediaTime)) - 1
  ELSE NearestFrom(list, mediaTime, 0, 0, 0 - 1)

----------------------------------------------------------------------------
(* The toolbar's position <-> timestamp conversions *)

\* Units of the slider position per percent: the least unit in which both
\* 0.001 percent (toFixed(3)) and 100/(30*60) percent (one frame at 1x) are whole
ToFixedScale == 1000
PosScale == 9 * ToFixedScale
Pct(p) == p * PosScale

\* currentDate.getTime(): new Date(start + (sliderValue / 100) * duration)
\* truncates to whole milliseconds; NaN gives an invalid date. The quotient
\* slider * duration / 100 is computed from the whole and the fractional part
\* of duration / 100, which keeps the products small
currentDate(slider, list) ==
  IF IsNum(slider)
  THEN LET duration == tripDurationMs(list)
           full == 100 * PosScale
       IN Num(tripStartDate(list) + slider.v * (duration \div full)
                                  + (slider.v * (duration % full)) \div full)
  ELSE NaN

\* Number(percent.toFixed(3)) for percent = num / den * 100, in position units:
\* the nearest multiple of 0.001 percent, with the fraction 100000 / den in
\* lowest terms, which keeps the products small
ToFixed3(num, den) ==
  LET RECURSIVE Gcd(_, _)
      Gcd(a, b) == IF b = 0 THEN a ELSE Gcd(b, a % b)
      g == Gcd(100 * ToFixedScale, den)
      n == (100 * ToFixedScale) \div g
      d == den \div g
  IN (PosScale \div ToFixedScale) * ((2 * n * num + d) \div (2 * d))

\* The watcher of store.timelineTimestamp
SliderFromTimestamp(timestamp, list) ==
  IF Falsy(timestamp) THEN Num(0)
  ELSE LET clamped == Min2(tripEndDate(list), Max2(tripStartDate(list), timestamp.v))
           duration == tripDurationMs(list)
           percent == IF duration = 0 THEN NaN
                      ELSE Num(ToFixed3(clamped - tripStartDate(list), duration))
       IN MathMax(Num(0), MathMin(Num(Pct(100)), percent))

\* The slider after a handler that left it at newSlider and the store's
\* timestamp at newTimestamp: the watcher runs (before the next event) when the
\* timestamp has changed; reading the trip dates of undefined segments throws
AfterWatch(newSlider, newTimestamp, newSegments) ==
  IF newTimestamp = timelineTimestamp THEN newSlider
  ELSE IF Falsy(newTimestamp) THEN Num(0)
  ELSE IF ~IsArray(newSegments) THEN newSlider
  ELSE SliderFromTimestamp(newTimestamp, newSegments.v)

----------------------------------------------------------------------------
(* Initial state: the store and the clock components after construction *)

\* TimelinePlayer's refs and its animationFrame after setup; no timeUpdate
\* event has been emitted yet
NoEvent == 0 - 1
PlayerConstructed ==
  [ isPlaying |-> FALSE, currentTime |-> 0, playbackSpeed |-> 1,
    animationFrame |-> 0, pending |-> {}, timeUpdate |-> NoEvent ]

\* History of the load call started last: whether it is still suspended (it is
\* then the last entry of loads), whether the installed segments, dataSource
\* and cache are the ones it wrote, and whether every load so far succeeded
NoLoadYet == [started |-> FALSE, inFlight |-> FALSE, wrote |-> FALSE, clean |-> TRUE]

Init ==
  /\ segments = Arr(<< >>)
  /\ loading = TRUE
  /\ error = "null"
  /\ dataSource = "default"
  /\ dateRange = << >>
  /\ timelineTimestamp = Null
  /\ isTimelineModeActive = FALSE
  /\ viewMode = "timeline"
  /\ selectedDay = 1
  /\ destinations = majorDestinations
  /\ segmentDestinationCache = EmptyMap
  /\ loads = << >>
  /\ isPlaying = FALSE
  /\ sliderValue = Num(0)
  /\ playbackSpeed = 1
  /\ animationFrame = 0
  /\ rafId = 0
  /\ pendingSliderUpdate = FALSE
  /\ rafQueue = {}
  /\ mounted = FALSE
  /\ searchQuery = << >>
  /\ latestLoad = NoLoadYet
  /\ timelinePlayer = PlayerConstructed
  /\ rendered = "toolbar"

----------------------------------------------------------------------------
(* Store actions *)

\* The i-th suspended load is the one that was started last
IsLatest(i) == latestLoad.inFlight /\ i = Len(loads)

Remove(seq, i) == SubSeq(seq, 1, i - 1) \o SubSeq(seq, i + 1, Len(seq))

\* "Calculate initial date range" of loadData / loadCustomData
InitialDateRange(list) ==
  IF Len(list) > 0 THEN << SeqMin(StartTimes(list)), SeqMax(StartTimes(list)) >>
  ELSE dateRange

\* loadData up to its first await: loading = true, then the fetch is awaited
loadData ==
  /\ Len(loads) < MaxInFlight
  /\ loading' = TRUE
  /\ loads' = Append(loads, [fn |-> "loadData", pc |-> "fetch"])
  /\ latestLoad' = [latestLoad EXCEPT !.started = TRUE, !.inFlight = TRUE, !.wrote = FALSE]
  /\ UNCHANGED << segments, error, dataSource, dateRange, searchQuery, timelineTimestamp,
                  isTimelineModeActive, viewMode, selectedDay, destinations,
                  segmentDestinationCache >>
  /\ UNCHANGED clockVars

\* loadData: fetch or response.json() rejects; catch and finally run
loadDataFailed(i) ==
  /\ loads[i].fn = "loadData" /\ loads[i].pc = "fetch"
  /\ error' = "Failed to load data"
  /\ loading' = FALSE
  /\ loads' = Remove(loads, i)
  /\ latestLoad' = [latestLoad EXCEPT !.inFlight = @ /\ ~IsLatest(i), !.clean = FALSE]
  /\ UNCHANGED << segments, dataSource, dateRange, searchQuery, timelineTimestamp,
                  isTimelineModeActive, viewMode, selectedDay, destinations,
                  segmentDestinationCache >>
  /\ UNCHANGED clockVars

\* loadData from the parsed response to the next await (the media load):
\* segments and dataSource are assigned first; segments.value.length throws
\* when semanticSegments is missing, and catch and finally run
loadDataFetched(i, data) ==
  /\ loads[i].fn = "loadData" /\ loads[i].pc = "fetch"
  /\ segments' = data.semanticSegments
  /\ dataSource' = "default"
  /\ IF IsArray(data.semanticSegments)
     THEN /\ dateRange' = InitialDateRange(data.semanticSegments.v)
          /\ segmentDestinationCache' =
               buildDestinationCache(data.semanticSegments.v, destinations)
          /\ loads' = [loads EXCEPT ![i].pc = "media"]
          /\ latestLoad' = [latestLoad EXCEPT !.wrote = IsLatest(i)]
          /\ UNCHANGED << error, loading >>
     ELSE /\ error' = "TypeError"
          /\ loading' = FALSE
          /\ loads' = Remove(loads, i)
          /\ latestLoad' = [latestLoad EXCEPT !.inFlight = @ /\ ~IsLatest(i),
                                              !.wrote = FALSE, !.clean = FALSE]
          /\ UNCHANGED << dateRange, segmentDestinationCache >>
  /\ UNCHANGED << timelineTimestamp, isTimelineModeActive, viewMode, selectedDay,
                  destinations, searchQuery >>
  /\ UNCHANGED clockVars

\* loadCustomData(jsonData) up to its first await: validation, then the swap
loadCustomData(jsonData) ==
  IF ~IsArray(jsonData.semanticSegments)
  THEN /\ error' = "Invalid JSON structure: missing semanticSegments array"
       /\ loading' = FALSE
       /\ latestLoad' = [started |-> TRUE, inFlight |-> FALSE, wrote |-> FALSE,
                         clean |-> FALSE]
       /\ UNCHANGED << segments, dataSource, dateRange, timelineTimestamp,
                       isTimelineModeActive, viewMode, selectedDay, destinations,
                       segmentDestinationCache, loads, searchQuery >>
       /\ UNCHANGED clockVars
  ELSE /\ Len(loads) < MaxInFlight
       /\ loading' = TRUE
       /\ segments' = jsonData.semanticSegments
       /\ dataSource' = "custom"
       /\ dateRange' = InitialDateRange(jsonData.semanticSegments.v)
       /\ segmentDestinationCache' = EmptyMap
       /\ loads' = Append(loads, [fn |-> "loadCustomData", pc |-> "media"])
       /\ latestLoad' = [latestLoad EXCEPT !.started = TRUE, !.inFlight = TRUE,
                                           !.wrote = TRUE]
       /\ UNCHANGED << error, timelineTimestamp, isTimelineModeActive, viewMode,
                       selectedDay, destinations, searchQuery >>
       /\ UNCHANGED clockVars

\* loadData / loadCustomData after the media and comments are loaded
\* (these loads catch their own errors): error = null, finally loading = false
loadFinished(i) ==
  /\ loads[i].pc = "media"
  /\ error' = "null"
  /\ loading' = FALSE
  /\ loads' = Remove(loads, i)
  /\ latestLoad' = [latestLoad EXCEPT !.inFlight = @ /\ ~IsLatest(i)]
  /\ UNCHANGED << segments, dataSource, dateRange, searchQuery, timelineTimestamp,
                  isTimelineModeActive, viewMode, selectedDay, destinations,
                  segmentDestinationCache >>
  /\ UNCHANGED clockVars

\* The toolbar state after a store action that leaves the timestamp at
\* newTimestamp: only the watcher touches it
ToolbarWatches(newTimestamp) ==
  /\ sliderValue' = AfterWatch(sliderValue, newTimestamp, segments)
  /\ UNCHANGED << isPlaying, playbackSpeed, animationFrame, rafId,
                  pendingSliderUpdate, rafQueue, mounted, timelinePlayer, rendered >>

\* setTimelineTimestamp(timestamp)
setTimelineTimestamp(timestamp) ==
  /\ timelineTimestamp' = timestamp
  /\ ToolbarWatches(timestamp)
  /\ UNCHANGED << segments, loading, error, dataSource, searchQuery, latestLoad, dateRange,
                  isTimelineModeActive, viewMode, selectedDay, destinations,
                  segmentDestinationCache, loads >>

\* The timestamp activateTimelineMode stores; tripStartDate throws on
\* undefined segments, after the mode flag is set
ActivatedTimestamp ==
  IF IsArray(segments) THEN Num(tripStartDate(segments.v)) ELSE timelineTimestamp

\* activateTimelineMode()
activateTimelineMode ==
  /\ isTimelineModeActive' = TRUE
  /\ timelineTimestamp' = ActivatedTimestamp
  /\ ToolbarWatches(ActivatedTimestamp)
  /\ UNCHANGED << segments, loading, error, dataSource, searchQuery, latestLoad, dateRange, viewMode,
                  selectedDay, destinations, segmentDestinationCache, loads >>

\* deactivateTimelineMode()
deactivateTimelineMode ==
  /\ isTimelineModeActive' = FALSE
  /\ timelineTimestamp' = Null
  /\ ToolbarWatches(Null)
  /\ UNCHANGED << segments, loading, error, dataSource, searchQuery, latestLoad, dateRange, viewMode,
                  selectedDay, destinations, segmentDestinationCache, loads >>

\* The timestamps a caller hands to setTimelineTimestamp: currentDate.getTime(),
\* a whole number of milliseconds or NaN
TimestampInputs == { Num(t) : t \in 0..MaxTimestamp } \cup { NaN }

\* setSearchQuery(query)
setSearchQuery(query) ==
  /\ searchQuery' = query
  /\ UNCHANGED << segments, loading, error, dataSource, latestLoad, dateRange,
                  timelineTimestamp, isTimelineModeActive, viewMode, selectedDay,
                  destinations, segmentDestinationCache, loads >>
  /\ UNCHANGED clockVars

\* setDateRange(range)
setDateRange(range) ==
  /\ dateRange' = range
  /\ UNCHANGED << segments, loading, error, dataSource, latestLoad, searchQuery,
                  timelineTimestamp, isTimelineModeActive, viewMode, selectedDay,
                  destinations, segmentDestinationCache, loads >>
  /\ UNCHANGED clockVars

\* The queries SearchBar hands to setSearchQuery (lower case), and the ranges
\* handed to setDateRange: null, or a start and an end as TimelineSlider's
QueryInputs == { << >>, << "o" >>, Home, << "x" >> }
DateRangeInputs ==
  { << >> } \cup { << a, b >> : a \in {0, 2}, b \in {2, MaxTimestamp} }

\* setViewMode(mode)
setViewMode(mode) ==
  /\ viewMode' = mode
  /\ IF mode = "timeline"
     THEN /\ isTimelineModeActive' = TRUE
          /\ timelineTimestamp' = ActivatedTimestamp
          /\ ToolbarWatches(ActivatedTimestamp)
     ELSE UNCHANGED << isTimelineModeActive, timelineTimestamp, clockVars >>
  /\ UNCHANGED << segments, loading, error, dataSource, searchQuery, latestLoad, dateRange,
                  selectedDay, destinations, segmentDestinationCache, loads >>

\* A day action that leaves the selected day at `day`
SelectsDay(day) ==
  /\ IsArray(segments)
  /\ selectedDay' = day
  /\ UNCHANGED << segments, loading, error, dataSource, searchQuery, latestLoad, dateRange,
                  timelineTimestamp, isTimelineModeActive, viewMode, destinations,
                  segmentDestinationCache, loads >>
  /\ UNCHANGED clockVars

\* setSelectedDay(day)
setSelectedDay(day) == SelectsDay(Max2(1, Min2(tripTotalDays(segments.v), day)))

\* nextDay()
nextDay ==
  SelectsDay(IF selectedDay < tripTotalDays(segments.v) THEN selectedDay + 1 ELSE selectedDay)

\* previousDay()
previousDay == SelectsDay(IF selectedDay > 1 THEN selectedDay - 1 ELSE selectedDay)

\* The days a caller hands to setSelectedDay
MaxDay == 3
DayInputs == 0..(MaxDay + 1)

----------------------------------------------------------------------------
(* The timeline toolbar (src/unnamed/part_005) *)

\* The part of the state the toolbar's functions read and write, as a record
Toolbar ==
  [ sliderValue |-> sliderValue, timelineTimestamp |-> timelineTimestamp,
    isTimelineModeActive |-> isTimelineModeActive, viewMode |-> viewMode,
    isPlaying |-> isPlaying, animationFrame |-> animationFrame, rafId |-> rafId,
    pendingSliderUpdate |-> pendingSliderUpdate, rafQueue |-> rafQueue ]

\* The segment list the toolbar's computeds read (the toolbar runs over a
\* loaded dataset)
List == segments.v

\* requestAnimationFrame(cb): the browser hands out a handle it has never
\* handed out; the least one no callback and no variable holds stands for it
FreshHandle(c) ==
  LET used == { f.id : f \in c.rafQueue } \cup { c.animationFrame, c.rafId }
  IN CHOOSE n \in 1..(Cardinality(used) + 1) : n \notin used

\* cancelAnimationFrame(id)
Cancel(queue, id) == { f \in queue : f.id # id }

\* (playbackSpeed * 100) / (30 * 60), in position units
PlaybackFrames == 30 * 60
Increment(speed) == (speed * 100 * PosScale) \div PlaybackFrames

\* a + b and a >= b on numbers that may be NaN
Plus(a, n) == IF IsNum(a) THEN Num(a.v + n) ELSE NaN
AtLeast(a, n) == IsNum(a) /\ a.v >= n

\* store.setTimelineTimestamp(currentDate.value.getTime())
PublishCurrentDate(c) ==
  [c EXCEPT !.timelineTimestamp = currentDate(c.sliderValue, List)]

\* store.setTimelineTimestamp(store.tripStartDate.getTime()) after sliderValue = 0
Rewind(c) ==
  [c EXCEPT !.sliderValue = Num(0), !.timelineTimestamp = Num(tripStartDate(List))]

\* pause() without its cancelAnimationFrame call, against which C3 is tested
PauseWithoutCancel(c) ==
  IF ~c.isPlaying THEN c
  ELSE [c EXCEPT !.isPlaying = FALSE, !.animationFrame = 0]

\* pause()
Pause(c) ==
  IF ~c.isPlaying THEN c
  ELSE [c EXCEPT !.isPlaying = FALSE,
                 !.rafQueue = IF c.animationFrame # 0 THEN Cancel(@, c.animationFrame) ELSE @,
                 !.animationFrame = 0]

\* animationFrame = requestAnimationFrame(animate)
RequestAnimate(c) ==
  LET id == FreshHandle(c)
  IN [c EXCEPT !.animationFrame = id, !.rafQueue = @ \cup {[id |-> id, cb |-> "animate"]}]

\* The position animate() moves to: Math.min(100, sliderValue + increment)
Advance(slider, speed) == MathMin(Num(Pct(100)), Plus(slider, Increment(speed)))

\* animate()
Animate(c, speed) ==
  IF ~c.isPlaying THEN c
  ELSE LET moved == PublishCurrentDate([c EXCEPT !.sliderValue = Advance(@, speed)])
       IN IF AtLeast(moved.sliderValue, Pct(100)) THEN Pause(moved)
          ELSE RequestAnimate(moved)

\* play()
Play(c, speed) ==
  LET c1 == IF AtLeast(c.sliderValue, Pct(100)) THEN Rewind(c) ELSE c
  IN IF c1.isPlaying THEN c1
     ELSE Animate([c1 EXCEPT !.isPlaying = TRUE], speed)

\* reset()
Reset(c) == Rewind(Pause(c))

\* skipForward() / skipBackward()
SkipStep == 5
SkipForward(c) ==
  PublishCurrentDate([c EXCEPT !.sliderValue = MathMin(Num(Pct(100)), Plus(@, Pct(SkipStep)))])
SkipBackward(c) ==
  PublishCurrentDate([c EXCEPT !.sliderValue = MathMax(Num(0), Plus(@, 0 - Pct(SkipStep)))])

\* handleSliderInput(event) without its pendingSliderUpdate and rafId tests:
\* every input requests a frame of its own
HandleSliderInputEachTime(c, value) ==
  LET c1 == [c EXCEPT !.sliderValue = Num(value), !.pendingSliderUpdate = TRUE]
      id == FreshHandle(c1)
  IN [c1 EXCEPT !.rafId = id, !.rafQueue = @ \cup {[id |-> id, cb |-> "slider"]}]

\* handleSliderInput(event) with Number(target.value) = value
HandleSliderInput(c, value) ==
  LET c1 == [c EXCEPT !.sliderValue = Num(value)]
  IN IF c1.pendingSliderUpdate THEN c1
     ELSE LET c2 == [c1 EXCEPT !.pendingSliderUpdate = TRUE,
                               !.rafQueue = IF c1.rafId # 0 THEN Cancel(@, c1.rafId) ELSE @]
              id == FreshHandle(c2)
          IN [c2 EXCEPT !.rafId = id, !.rafQueue = @ \cup {[id |-> id, cb |-> "slider"]}]

\* The callback handleSliderInput hands to requestAnimationFrame
SliderCallback(c) ==
  [PublishCurrentDate(c) EXCEPT !.pendingSliderUpdate = FALSE, !.rafId = 0]

\* The watcher of store.timelineTimestamp, run after a handler or callback
\* that started in state `before` and ended in state `c`
Watch(before, c) ==
  IF c.timelineTimestamp = before.timelineTimestamp THEN c
  ELSE [c EXCEPT !.sliderValue = SliderFromTimestamp(c.timelineTimestamp, List)]

\* One callback of an animation frame, then the watcher
RunCallback(c, f, speed) ==
  LET c1 == [c EXCEPT !.rafQueue = @ \ {f}]
  IN Watch(c, IF f.cb = "slider" THEN SliderCallback(c1) ELSE Animate(c1, speed))

\* An animation frame: the callbacks pending when the frame starts run in the
\* order they were requested, unless cancelled meanwhile
RECURSIVE RunFrame(_, _, _)
RunFrame(c, todo, speed) ==
  IF todo = {} THEN c
  ELSE LET f == CHOOSE g \in todo : \A h \in todo : g.id <= h.id
       IN RunFrame(IF f \in c.rafQueue THEN RunCallback(c, f, speed) ELSE c,
                   todo \ {f}, speed)

\* The variables after a toolbar step that ends in state c
Becomes(c) ==
  /\ sliderValue' = c.sliderValue
  /\ timelineTimestamp' = c.timelineTimestamp
  /\ isTimelineModeActive' = c.isTimelineModeActive
  /\ viewMode' = c.viewMode
  /\ isPlaying' = c.isPlaying
  /\ animationFrame' = c.animationFrame
  /\ rafId' = c.rafId
  /\ pendingSliderUpdate' = c.pendingSliderUpdate
  /\ rafQueue' = c.rafQueue
  /\ UNCHANGED << segments, loading, error, dataSource, searchQuery, latestLoad, dateRange, selectedDay,
                  destinations, segmentDestinationCache, loads, playbackSpeed, mounted,
                  timelinePlayer, rendered >>

\* The controls of timeline mode are rendered (v-if) in timeline view only
ControlsShown == rendered = "toolbar" /\ mounted /\ viewMode = "timeline"

\* onMounted: store.activateTimelineMode()
onMounted ==
  /\ rendered = "toolbar"
  /\ ~mounted
  /\ mounted' = TRUE
  /\ isTimelineModeActive' = TRUE
  /\ timelineTimestamp' = ActivatedTimestamp
  /\ sliderValue' = AfterWatch(sliderValue, ActivatedTimestamp, segments)
  /\ UNCHANGED << segments, loading, error, dataSource, searchQuery, latestLoad, dateRange, viewMode,
                  selectedDay, destinations, segmentDestinationCache, loads,
                  isPlaying, playbackSpeed, animationFrame, rafId,
                  pendingSliderUpdate, rafQueue, timelinePlayer, rendered >>

\* @input of the range input (min 0, max 100)
handleSliderInput(value) ==
  /\ ControlsShown
  /\ Becomes(Watch(Toolbar, HandleSliderInput(Toolbar, value)))

\* @click="isPlaying ? pause() : play()"
clickPlayPause ==
  /\ ControlsShown
  /\ Becomes(Watch(Toolbar, IF isPlaying THEN Pause(Toolbar)
                            ELSE Play(Toolbar, playbackSpeed)))

\* @click="reset"
reset == ControlsShown /\ Becomes(Watch(Toolbar, Reset(Toolbar)))

\* @click="skipForward" / @click="skipBackward"
skipForward == ControlsShown /\ Becomes(Watch(Toolbar, SkipForward(Toolbar)))
skipBackward == ControlsShown /\ Becomes(Watch(Toolbar, SkipBackward(Toolbar)))

\* speeds[(currentIndex + 1) % speeds.length] || 1
speeds == << 1, 2, 4, 8 >>
\* cycleSpeed doubling the speed without the wrap to the first speed
NextSpeedDoubled(speed) == 2 * speed
NextSpeed(speed) ==
  LET currentIndex == IF \E k \in 1..Len(speeds) : speeds[k] = speed
                      THEN (CHOOSE k \in 1..Len(speeds) : speeds[k] = speed) - 1
                      ELSE 0 - 1
  IN speeds[((currentIndex + 1) % Len(speeds)) + 1]

\* @click="cycleSpeed"
cycleSpeed ==
  /\ ControlsShown
  /\ playbackSpeed' = NextSpeed(playbackSpeed)
  /\ UNCHANGED << segments, loading, error, dataSource, searchQuery, latestLoad, dateRange, timelineTimestamp,
                  isTimelineModeActive, viewMode, selectedDay, destinations,
                  segmentDestinationCache, loads, isPlaying, sliderValue,
                  animationFrame, rafId, pendingSliderUpdate, rafQueue, mounted,
                  timelinePlayer, rendered >>

\* The browser runs an animation frame
animationFrameFired ==
  /\ rafQueue # {}
  /\ Becomes(RunFrame(Toolbar, rafQueue, playbackSpeed))

\* toggleViewMode() without its call of pause()
ToggleViewModeOnly(c) ==
  IF c.viewMode = "timeline" THEN [c EXCEPT !.viewMode = "day-by-day"]
  ELSE [c EXCEPT !.viewMode = "timeline", !.isTimelineModeActive = TRUE,
                 !.timelineTimestamp = Num(tripStartDate(List))]

\* toggleViewMode(): setViewMode('day-by-day') and pause(), or
\* setViewMode('timeline'), which activates timeline mode again
ToggleViewMode(c) ==
  IF c.viewMode = "timeline" THEN Pause([c EXCEPT !.viewMode = "day-by-day"])
  ELSE [c EXCEPT !.viewMode = "timeline", !.isTimelineModeActive = TRUE,
                 !.timelineTimestamp = Num(tripStartDate(List))]

\* @click="toggleViewMode"
toggleViewMode == mounted /\ Becomes(Watch(Toolbar, ToggleViewMode(Toolbar)))

\* The values the range input reports (min 0, max 100, step 0.1), in percent
SliderInputs == { Pct(0), Pct(50), Pct(98), Pct(100) }

----------------------------------------------------------------------------
(* The TimelinePlayer component (src/src/components/TimelinePlayer.vue).     *)
(* Its position currentTime is always a number; the timeUpdate events it     *)
(* emits have no listener in the sources and change no state of the store.   *)
(* The event carries startDate + totalDuration * currentTime / 100 for the    *)
(* component's own constant dates; timeUpdate keeps the position of the last  *)
(* event instead of that timestamp.                                           *)

\* requestAnimationFrame: a handle never handed out before
PlayerFreshHandle(q) ==
  LET used == q.pending \cup { q.animationFrame }
  IN CHOOSE n \in 1..(Cardinality(used) + 1) : n \notin used

\* pause()
PlayerPause(q) ==
  [q EXCEPT !.isPlaying = FALSE,
            !.pending = IF q.animationFrame # 0 THEN @ \ { q.animationFrame } ELSE @,
            !.animationFrame = 0]

\* animate()
PlayerAnimate(q) ==
  IF ~q.isPlaying THEN q
  ELSE LET moved == [q EXCEPT !.currentTime =
                                Min2(Pct(100), @ + Increment(q.playbackSpeed))]
       IN IF moved.currentTime >= Pct(100) THEN PlayerPause(moved)
          ELSE LET id == PlayerFreshHandle(moved)
               IN [moved EXCEPT !.timeUpdate = moved.currentTime,
                                !.animationFrame = id, !.pending = @ \cup { id }]

\* play()
PlayerPlay(q) == PlayerAnimate([q EXCEPT !.isPlaying = TRUE])

\* reset()
PlayerReset(q) == [PlayerPause(q) EXCEPT !.currentTime = 0, !.timeUpdate = 0]

\* skipForward() / skipBackward()
PlayerSkipForward(q) ==
  LET moved == Min2(Pct(100), q.currentTime + Pct(SkipStep))
  IN [q EXCEPT !.currentTime = moved, !.timeUpdate = moved]
PlayerSkipBackward(q) ==
  LET moved == Max2(0, q.currentTime - Pct(SkipStep))
  IN [q EXCEPT !.currentTime = moved, !.timeUpdate = moved]

\* An animation frame: the pending animate callbacks run in the order they
\* were requested, unless cancelled meanwhile
RECURSIVE PlayerRunFrame(_, _)
PlayerRunFrame(q, todo) ==
  IF todo = {} THEN q
  ELSE LET id == CHOOSE g \in todo : \A h \in todo : g <= h
       IN PlayerRunFrame(IF id \in q.pending
                         THEN PlayerAnimate([q EXCEPT !.pending = @ \ { id }])
                         ELSE q,
                         todo \ { id })

\* The variables after a TimelinePlayer step that ends in state q
PlayerBecomes(q) ==
  /\ rendered = "player"
  /\ timelinePlayer' = q
  /\ UNCHANGED << storeVars, isPlaying, sliderValue, playbackSpeed, animationFrame,
                  rafId, pendingSliderUpdate, rafQueue, mounted, rendered >>

\* @click="isPlaying ? pause() : play()"
playerClickPlayPause ==
  PlayerBecomes(IF timelinePlayer.isPlaying THEN PlayerPause(timelinePlayer)
                ELSE PlayerPlay(timelinePlayer))

\* @click="reset", "skipForward", "skipBackward", "cycleSpeed"
playerReset == PlayerBecomes(PlayerReset(timelinePlayer))
playerSkipForward == PlayerBecomes(PlayerSkipForward(timelinePlayer))
playerSkipBackward == PlayerBecomes(PlayerSkipBackward(timelinePlayer))
playerCycleSpeed ==
  PlayerBecomes([timelinePlayer EXCEPT !.playbackSpeed = NextSpeed(@)])

\* v-model.number="currentTime" of the range input (min 0, max 100) and
\* @input="handleSliderChange"
playerSliderInput(value) ==
  PlayerBecomes([timelinePlayer EXCEPT !.currentTime = value, !.timeUpdate = value])

\* The browser runs an animation frame
playerFrameFired ==
  /\ timelinePlayer.pending # {}
  /\ PlayerBecomes(PlayerRunFrame(timelinePlayer, timelinePlayer.pending))

----------------------------------------------------------------------------
(* SpecLoad: the store under dataset loads, from construction *)

NextLoad ==
  \/ loadData
  \/ \E i \in 1..Len(loads) : loadDataFailed(i)
  \/ \E i \in 1..Len(loads) : \E data \in FeedDocuments : loadDataFetched(i, data)
  \/ \E jsonData \in FeedDocuments : loadCustomData(jsonData)
  \/ \E i \in 1..Len(loads) : loadFinished(i)

SpecLoad == Init /\ [][NextLoad]_vars

----------------------------------------------------------------------------
(* SpecReveal: the timeline operations of the store over a loaded dataset *)

\* The dataset state once a load of `list` from `source` has completed
DatasetLoaded(list, source) ==
  /\ segments = Arr(list)
  /\ loading = FALSE
  /\ error = "null"
  /\ dataSource = source
  /\ dateRange = IF Len(list) > 0
                 THEN << SeqMin(StartTimes(list)), SeqMax(StartTimes(list)) >>
                 ELSE << >>
  /\ selectedDay = 1
  /\ destinations = majorDestinations
  /\ segmentDestinationCache =
       IF source = "default" THEN buildDestinationCache(list, majorDestinations)
       ELSE EmptyMap
  /\ loads = << >>
  /\ searchQuery = << >>
  /\ latestLoad = [NoLoadYet EXCEPT !.started = TRUE, !.wrote = TRUE]

\* The timeline state of the store and the toolbar as constructed
ToolbarConstructed ==
  /\ timelineTimestamp = Null
  /\ isTimelineModeActive = FALSE
  /\ viewMode = "timeline"
  /\ isPlaying = FALSE
  /\ sliderValue = Num(0)
  /\ playbackSpeed = 1
  /\ animationFrame = 0
  /\ rafId = 0
  /\ pendingSliderUpdate = FALSE
  /\ rafQueue = {}
  /\ mounted = FALSE

\* The store once a load of `list` from `source` has completed, and the
\* clock component `component` as constructed
PageLoaded(list, source, component) ==
  /\ DatasetLoaded(list, source)
  /\ rendered = component
  /\ timelinePlayer = PlayerConstructed
  /\ ToolbarConstructed

InitReveal ==
  \E list \in SegmentLists : \E source \in {"default", "custom"} :
    PageLoaded(list, source, "toolbar")

NextReveal ==
  \/ \E timestamp \in TimestampInputs : setTimelineTimestamp(timestamp)
  \/ activateTimelineMode
  \/ deactivateTimelineMode

SpecReveal == InitReveal /\ [][NextReveal]_vars

----------------------------------------------------------------------------
(* SpecFilter: SpecReveal with the search box and the date range slider *)

NextFilter ==
  \/ NextReveal
  \/ \E query \in QueryInputs : setSearchQuery(query)
  \/ \E range \in DateRangeInputs : setDateRange(range)

SpecFilter == InitReveal /\ [][NextFilter]_vars

----------------------------------------------------------------------------
(* SpecClock: the toolbar over a loaded dataset *)

\* Datasets of the trip durations 0 ms (one segment that ends when it starts)
\* and 2 ms
ClockLists ==
  { << Seg(2, 2, Visit(OnePart(1)), << Pt(LatLng(5)) >>, 0) >>,
    << Seg(1, 3, Visit(LatLng(5)), << Pt(LatLng(1)) >>, 2000) >> }

InitClock ==
  \E list \in ClockLists : \E component \in {"toolbar", "player"} :
    PageLoaded(list, "default", component)

NextClock ==
  \/ onMounted
  \/ \E value \in SliderInputs : handleSliderInput(value)
  \/ clickPlayPause
  \/ reset
  \/ skipForward
  \/ skipBackward
  \/ cycleSpeed
  \/ toggleViewMode
  \/ animationFrameFired
  \/ \E value \in SliderInputs : playerSliderInput(value)
  \/ playerClickPlayPause
  \/ playerReset
  \/ playerSkipForward
  \/ playerSkipBackward
  \/ playerCycleSpeed
  \/ playerFrameFired

SpecClock == InitClock /\ [][NextClock]_vars

----------------------------------------------------------------------------
(* SpecDays: the day-by-day view. Datasets of zero to three days are loaded *)
(* one after the other while the view mode and the selected day change.     *)

\* A timeline path segment that starts and ends at the given times
DaySeg(st, en) == Seg(st, en, NoVisit, << Pt(LatLng(5)) >>, 1000)

\* The first instant of the datasets below
DayTripStart == 7

\* Datasets: empty; one instant; exactly one day; one day and a segment that
\* starts exactly 24 h after the trip start; three days; exactly one day with
\* a segment that starts and ends at the trip end
DayLists ==
  { << >>,
    << DaySeg(DayTripStart, DayTripStart + 1),
       DaySeg(DayTripStart + DayMs, DayTripStart + DayMs) >>,
    << DaySeg(DayTripStart, DayTripStart) >>,
    << DaySeg(DayTripStart, DayTripStart + DayMs) >>,
    << DaySeg(DayTripStart, DayTripStart + DayMs - 1),
       DaySeg(DayTripStart + DayMs - 1, DayTripStart + DayMs),
       DaySeg(DayTripStart + DayMs, DayTripStart + DayMs + 1) >>,
    << DaySeg(DayTripStart, DayTripStart + 1),
       DaySeg(DayTripStart + DayMs, DayTripStart + 2 * DayMs - 1),
       DaySeg(DayTripStart + 2 * DayMs, DayTripStart + 2 * DayMs + 1) >> }

InitDays == \E list \in DayLists : PageLoaded(list, "default", "toolbar")

NextDays ==
  \/ \E list \in DayLists : loadCustomData(Document(list))
  \/ \E i \in 1..Len(loads) : loadFinished(i)
  \/ \E mode \in {"timeline", "day-by-day"} : setViewMode(mode)
  \/ \E day \in DayInputs : setSelectedDay(day)
  \/ nextDay
  \/ previousDay

SpecDays == InitDays /\ [][NextDays]_vars

----------------------------------------------------------------------------
(* SpecColors: datasets of one or several calendar years are loaded one     *)
(* after the other.                                                         *)

\* A segment that starts in the given month (0-11) of the year-th year
ColorSeg(year, month) ==
  Seg((12 * year + month) * MonthMs, (12 * year + month) * MonthMs + 1, NoVisit,
      << Pt(LatLng(5)) >>, 1000)

\* Segments of three years, and a dataset with a segment in each of 13 years
ColorPool ==
  { ColorSeg(0, 0), ColorSeg(0, 7), ColorSeg(0, 10), ColorSeg(1, 7), ColorSeg(2, 11) }
ThirteenYears == [i \in 1..(PaletteLength + 1) |-> ColorSeg(PaletteLength + 1 - i, 3)]
ColorLists == SeqsUpTo(ColorPool, 3) \cup { ThirteenYears }

InitColors == \E list \in ColorLists : PageLoaded(list, "default", "toolbar")

NextColors ==
  \/ \E list \in ColorLists : loadCustomData(Document(list))
  \/ \E i \in 1..Len(loads) : loadFinished(i)

SpecColors == InitColors /\ [][NextColors]_vars

----------------------------------------------------------------------------
(* SpecDeactivate: the toolbar over a loaded dataset, with a caller of the  *)
(* store's deactivateTimelineMode() (the store exports it; no component in  *)
(* the sources calls it).                                                   *)

InitDeactivate == \E list \in ClockLists : PageLoaded(list, "default", "toolbar")

NextDeactivate ==
  \/ onMounted
  \/ \E value \in SliderInputs : handleSliderInput(value)
  \/ clickPlayPause
  \/ toggleViewMode
  \/ animationFrameFired
  \/ deactivateTimelineMode

SpecDeactivate == InitDeactivate /\ [][NextDeactivate]_vars

----------------------------------------------------------------------------
(* SpecSwap: the toolbar's clock while datasets are loaded. The toolbar     *)
(* mounts over a loaded dataset; the user seeks, skips, plays and resets,   *)
(* and other datasets are loaded through loadCustomData meanwhile.          *)

InitSwap == \E list \in ClockLists : PageLoaded(list, "default", "toolbar")

NextSwap ==
  \/ onMounted
  \/ handleSliderInput(Pct(50))
  \/ clickPlayPause
  \/ reset
  \/ skipForward
  \/ skipBackward
  \/ animationFrameFired
  \/ \E list \in ClockLists : loadCustomData(Document(list))
  \/ \E i \in 1..Len(loads) : loadFinished(i)

SpecSwap == InitSwap /\ [][NextSwap]_vars

----------------------------------------------------------------------------
(* SpecPlay: uninterrupted playback. The user mounts the clock component   *)
(* over a loaded dataset, may seek, picks a speed and clicks play; from     *)
(* then on animation frames keep firing (the browser runs every requested   *)
(* frame) and no other input arrives.                                       *)

\* The toolbar as constructed, and after onMounted over the loaded dataset
Constructed ==
  [ sliderValue |-> Num(0), timelineTimestamp |-> Null,
    isTimelineModeActive |-> FALSE, viewMode |-> "timeline", isPlaying |-> FALSE,
    animationFrame |-> 0, rafId |-> 0, pendingSliderUpdate |-> FALSE,
    rafQueue |-> {} ]
Mounted ==
  Watch(Constructed, [Constructed EXCEPT !.isTimelineModeActive = TRUE,
                                         !.timelineTimestamp = Num(tripStartDate(List))])

\* A slider input and the animation frame that publishes it
Seek(c, value) ==
  LET c1 == Watch(c, HandleSliderInput(c, value))
  IN RunFrame(c1, c1.rafQueue, 1)

\* The seeks before play: none, or one to 50 or 95 percent
Seeks == { << >>, << Pct(50) >>, << Pct(95) >> }

\* The toolbar after the seeks and a click on play at `speed`
Playing(seeks, speed) ==
  LET c1 == IF Len(seeks) = 0 THEN Mounted ELSE Seek(Mounted, seeks[1])
  IN Watch(c1, Play(c1, speed))

\* TimelinePlayer after the seeks and a click on play at `speed`
PlayerPlaying(seeks, speed) ==
  PlayerPlay([PlayerConstructed EXCEPT
                !.currentTime = IF Len(seeks) = 0 THEN @ ELSE seeks[1],
                !.playbackSpeed = speed])

InitPlayToolbar(list, seeks, speed) ==
  /\ DatasetLoaded(list, "default")
  /\ rendered = "toolbar"
  /\ timelinePlayer = PlayerConstructed
  /\ mounted = TRUE
  /\ playbackSpeed = speed
  /\ LET c == Playing(seeks, speed)
     IN /\ sliderValue = c.sliderValue
        /\ timelineTimestamp = c.timelineTimestamp
        /\ isTimelineModeActive = c.isTimelineModeActive
        /\ viewMode = c.viewMode
        /\ isPlaying = c.isPlaying
        /\ animationFrame = c.animationFrame
        /\ rafId = c.rafId
        /\ pendingSliderUpdate = c.pendingSliderUpdate
        /\ rafQueue = c.rafQueue

InitPlayPlayer(list, seeks, speed) ==
  /\ DatasetLoaded(list, "default")
  /\ rendered = "player"
  /\ ToolbarConstructed
  /\ timelinePlayer = PlayerPlaying(seeks, speed)

\* A trip of a quarter of an hour: one position unit is one millisecond
QuarterHourMs == 15 * 60 * 1000
LongTrip == << Seg(1, 1 + QuarterHourMs, Visit(LatLng(5)), << Pt(LatLng(1)) >>, 2000) >>
PlayLists == ClockLists \cup { LongTrip }

InitPlay ==
  \E list \in PlayLists : \E seeks \in Seeks : \E k \in 1..Len(speeds) :
    InitPlayToolbar(list, seeks, speeds[k]) \/ InitPlayPlayer(list, seeks, speeds[k])

NextPlay == animationFrameFired \/ playerFrameFired

SpecPlay == InitPlay /\ [][NextPlay]_vars /\ WF_vars(NextPlay)

----------------------------------------------------------------------------
(* Properties of the playback clock *)

\* The handles of the playback ticks the browser still holds for the rendered
\* component
PendingTicks ==
  IF rendered = "toolbar" THEN { f.id : f \in { g \in rafQueue : g.cb = "animate" } }
  ELSE timelinePlayer.pending

\* The rendered clock: playing flag, position, and the handle it keeps
ClockIsPlaying == IF rendered = "toolbar" THEN isPlaying ELSE timelinePlayer.isPlaying
ClockPosition ==
  IF rendered = "toolbar" THEN sliderValue ELSE Num(timelinePlayer.currentTime)
ClockHandle ==
  IF rendered = "toolbar" THEN animationFrame ELSE timelinePlayer.animationFrame

\* The position is a number below 100 percent
Below100 == IsNum(ClockPosition) /\ ClockPosition.v < Pct(100)

\* The clock has stopped at the end of the trip
StoppedAtEnd ==
  ~ClockIsPlaying /\ ClockPosition = Num(Pct(100)) /\ PendingTicks = {}

\* C1: after any sequence of clock operations over any dataset, a trip of
\* zero duration included, sliderValue is a number between 0 and 100.
C1_PositionInRange ==
  IsNum(ClockPosition) /\ 0 <= ClockPosition.v /\ ClockPosition.v <= Pct(100)

\* C2: from the playing state at a position below 100, at any speed, with
\* frames firing and no other input, the clock eventually stops at position
\* 100; meanwhile the position never exceeds 100 and never moves backwards,
\* and no tick stays scheduled once the clock has stopped.
C2_AutoStop ==
  /\ (ClockIsPlaying /\ Below100) ~> StoppedAtEnd
  /\ [](IsNum(ClockPosition) => ClockPosition.v <= Pct(100))
  /\ [](~ClockIsPlaying => PendingTicks = {})
  /\ [][IsNum(ClockPosition) /\ IsNum(ClockPosition')
          => ClockPosition'.v >= ClockPosition.v]_vars

\* C3: under every interleaving of play, pause, reset, seeks, skips, speed
\* changes, view toggles and frames, at most one playback tick is pending; it
\* is the one animationFrame names, and none is pending while the clock is
\* paused.
C3_OneTickPending ==
  /\ Cardinality(PendingTicks) <= 1
  /\ \A id \in PendingTicks : ClockIsPlaying /\ id = ClockHandle

\* C3 witness: the clock is playing again after an earlier tick was cancelled
\* (its handle is not the first one), next to a pending slider callback
C3_Witness ==
  /\ isPlaying
  /\ \E id \in PendingTicks : id > 1
  /\ \E f \in rafQueue : f.cb = "slider"

----------------------------------------------------------------------------
(* Properties of the progressive reveal *)

Range(seq) == { seq[i] : i \in 1..Len(seq) }

\* Slider positions, every ten percent
PositionSamples == { Pct(10 * k) : k \in 0..10 }

\* The segments revealed with the clock at position p
RevealedAt(p) ==
  timelineSegments(List, dateRange, searchQuery, isTimelineModeActive, currentDate(Num(p), List))

\* The segments revealed, and the reached flags, in the current state
RevealedNow ==
  timelineSegments(List, dateRange, searchQuery, isTimelineModeActive, timelineTimestamp)
ReachedNow ==
  reachedDestinations(List, dateRange, searchQuery, isTimelineModeActive, timelineTimestamp,
                      segmentDestinationCache, destinations)

\* The destinations reached with the clock at position p
ReachedAt(p) ==
  LET flags == reachedDestinations(List, dateRange, searchQuery, isTimelineModeActive,
                                   currentDate(Num(p), List),
                                   segmentDestinationCache, destinations)
  IN { d \in 1..Len(destinations) : flags[d] }

\* The destinations the index gives for the revealed segments
IndexedNow ==
  { d \in 1..Len(destinations) :
      \E seg \in Range(RevealedNow) :
        /\ seg.startTime \in DOMAIN segmentDestinationCache
        /\ d \in segmentDestinationCache[seg.startTime] }

\* C4: with timeline mode active and the segment list fixed, the segments
\* revealed at a position are among those revealed at any later position.
C4_RevealMonotonic ==
  isTimelineModeActive =>
    \A p1, p2 \in PositionSamples :
      p1 < p2 => Range(RevealedAt(p1)) \subseteq Range(RevealedAt(p2))

\* C4 witness: timeline mode is active and the clock reveals a part of the
\* list that is neither empty nor the whole list
C4_Witness ==
  /\ isTimelineModeActive
  /\ IsNum(timelineTimestamp)
  /\ Range(RevealedNow) # {}
  /\ Range(RevealedNow) # Range(filteredSegments(List, dateRange, searchQuery))

\* C5: with timeline mode active, the destinations reached at a position are
\* among those reached at any later position, position 0 and a trip that
\* starts at timestamp 0 included.
C5_ReachedMonotonic ==
  isTimelineModeActive =>
    \A p1, p2 \in PositionSamples : p1 < p2 => ReachedAt(p1) \subseteq ReachedAt(p2)

\* C6: while timeline mode is inactive every destination is reached, whatever
\* the timestamp, the segments and the index hold.
C6_IdleAllReached ==
  ~isTimelineModeActive => \A d \in 1..Len(destinations) : ReachedNow[d]

\* C6 witness: timeline mode is inactive over a stored timestamp that, were the
\* mode active, would leave a destination unreached
C6_Witness ==
  /\ ~isTimelineModeActive
  /\ IsNum(timelineTimestamp) /\ timelineTimestamp.v > 0
  /\ segmentDestinationCache # EmptyMap
  /\ \E d \in 1..Len(destinations) :
       ~reachedDestinations(List, dateRange, searchQuery, TRUE, timelineTimestamp,
                            segmentDestinationCache, destinations)[d]

\* C7: with timeline mode active, a destination is reached exactly when the
\* index, looked up by the start time of a revealed segment, holds it.
C7_ReachedIffIndexed ==
  isTimelineModeActive =>
    \A d \in 1..Len(destinations) : ReachedNow[d] <=> d \in IndexedNow

\* A candidate point of the segment (visit location, first or last path point)
\* lies within the threshold of the destination
CandidateWithin(segment, dest) ==
  LET candidates ==
        (IF segment.visit.present THEN { segment.visit.latLng }
         ELSE {})
        \cup (IF Len(segment.timelinePath) > 0
              THEN { segment.timelinePath[1].point,
                     segment.timelinePath[Len(segment.timelinePath)].point }
              ELSE {})
  IN \E str \in candidates : PointIsNear(str, dest)

\* C8: the index built over the default dataset maps a segment, through its
\* start time, to a destination exactly when a candidate point of the segment
\* is within 50 km of it; a segment near none has no key, and no entry is empty.
C8_IndexExact ==
  dataSource = "default" =>
    /\ \A i \in 1..Len(List) : \A d \in 1..Len(destinations) :
         ( /\ List[i].startTime \in DOMAIN segmentDestinationCache
           /\ d \in segmentDestinationCache[List[i].startTime] )
         <=> CandidateWithin(List[i], destinations[d])
    /\ \A key \in DOMAIN segmentDestinationCache : segmentDestinationCache[key] # {}

----------------------------------------------------------------------------
(* Properties of the dataset swap *)

\* C9: in every state between events the index belongs to the dataset: built
\* from the current segments and destinations when the source is 'default',
\* empty when it is 'custom'.
C9_IndexBelongsToDataset ==
  /\ IsArray(segments)
  /\ segmentDestinationCache =
       IF dataSource = "default" THEN buildDestinationCache(segments.v, destinations)
       ELSE EmptyMap

\* A load step that handles a document without a semanticSegments array
RejectsDocument ==
  \/ \E i \in 1..Len(loads) : loadDataFetched(i, NoSegmentsDocument)
  \/ loadCustomData(NoSegmentsDocument)

\* C10: a document whose semanticSegments is missing or no array is rejected by
\* every load path before any core state is replaced.
C10_InvalidRejected ==
  [][RejectsDocument =>
       UNCHANGED << segments, dataSource, dateRange, segmentDestinationCache >>]_vars

\* C11: once every load has completed, all of them successfully, the installed
\* segments, dataSource and index are those written by the load that was
\* started last, in whatever order the completions arrived.
C11_LastStartedWins ==
  (latestLoad.started /\ latestLoad.clean /\ loads = << >>) => latestLoad.wrote

\* C12: after a successful loadCustomData the store is in custom-dataset mode
\* with an empty destination list and an empty index, so reachedDestinations
\* reports no destination.
C12_CustomHasNoDestinations ==
  (dataSource = "custom" /\ IsArray(segments)) =>
    /\ destinations = << >>
    /\ segmentDestinationCache = EmptyMap
    /\ reachedDestinations(segments.v, dateRange, searchQuery, isTimelineModeActive,
                           timelineTimestamp, segmentDestinationCache,
                           destinations) = << >>

----------------------------------------------------------------------------
(* Properties of the clock operations *)

\* The rendered clock is at the end of the trip
AtEnd ==
  IF rendered = "toolbar" THEN AtLeast(sliderValue, Pct(100))
  ELSE timelinePlayer.currentTime >= Pct(100)

\* The clock state a call of play() in the current state leads to, and the
\* current one
AfterPlay ==
  IF rendered = "toolbar"
  THEN [toolbar |-> Watch(Toolbar, Play(Toolbar, playbackSpeed)), player |-> timelinePlayer]
  ELSE [toolbar |-> Toolbar, player |-> PlayerPlay(timelinePlayer)]
ClockNow == [toolbar |-> Toolbar, player |-> timelinePlayer]

\* C13: play() called while the clock is playing, or while the position is at
\* 100, leaves isPlaying, the position, the store timestamp and the pending
\* ticks as they are.
C13_PlayIsNoOp ==
  ((rendered = "player" \/ mounted) /\ (ClockIsPlaying \/ AtEnd)) => AfterPlay = ClockNow

\* The clock state a call of pause() in the current state leads to
AfterPause ==
  IF rendered = "toolbar"
  THEN [toolbar |-> Watch(Toolbar, Pause(Toolbar)), player |-> timelinePlayer]
  ELSE [toolbar |-> Toolbar, player |-> PlayerPause(timelinePlayer)]

\* A click on the play/pause button while playing: pause() is called
PauseStep ==
  \/ clickPlayPause /\ isPlaying
  \/ playerClickPlayPause /\ timelinePlayer.isPlaying

\* The browser runs an animation frame of the rendered component
FrameStep == animationFrameFired \/ playerFrameFired

\* The position after the browser runs the next animation frame
PositionAfterFrame ==
  IF rendered = "toolbar"
  THEN RunFrame(Toolbar, rafQueue, playbackSpeed).sliderValue
  ELSE Num(PlayerRunFrame(timelinePlayer, timelinePlayer.pending).currentTime)

\* C14: pause() while playing leaves the clock paused with no playback tick
\* pending and the position as it was; the animation frame that follows
\* pause(), with no user action in between, leaves the position as pause()
\* left it; pause() while paused changes nothing.
C14_PauseStops ==
  /\ [][PauseStep => /\ ~ClockIsPlaying'
                     /\ PendingTicks' = {}
                     /\ ClockPosition' = ClockPosition
                     /\ PositionAfterFrame' = ClockPosition']_vars
  /\ [](~ClockIsPlaying => AfterPause = ClockNow)

\* A slider input
SeekStep ==
  \/ \E value \in SliderInputs : handleSliderInput(value)
  \/ \E value \in SliderInputs : playerSliderInput(value)

\* The position lies between the seeked position and one increment past it
AdvancedFrom(position, seeked) ==
  /\ IsNum(position) /\ IsNum(seeked)
  /\ seeked.v <= position.v
  /\ position.v <= Advance(seeked, playbackSpeed).v

\* C15: a slider input leaves the play/pause state and the pending playback
\* tick as they are; when it arrives during playback, the next frame leaves the
\* toolbar playing (or stopped at 100) at a position one tick past the seeked
\* one.
C15_SeekKeepsPlaying ==
  /\ [][SeekStep => /\ ClockIsPlaying' = ClockIsPlaying
                    /\ PendingTicks' = PendingTicks]_vars
  /\ [][(animationFrameFired /\ isPlaying /\ pendingSliderUpdate)
          => /\ AdvancedFrom(sliderValue', sliderValue)
             /\ isPlaying' \/ sliderValue' = Num(Pct(100))]_vars

\* A toolbar step that calls activateTimelineMode(): onMounted, or
\* toggleViewMode() in day-by-day view through setViewMode('timeline')
ActivateStep ==
  \/ onMounted
  \/ toggleViewMode /\ viewMode = "day-by-day"

\* C16: activate() leaves the clock Active and paused at position 0, with the
\* timestamp at the trip start of the loaded dataset and no playback tick
\* pending.
C16_ActivateRewinds ==
  [][ActivateStep => /\ isTimelineModeActive'
                     /\ ~isPlaying'
                     /\ sliderValue' = Num(0)
                     /\ timelineTimestamp' = Num(tripStartDate(List))
                     /\ PendingTicks' = {}]_vars

\* C17: deactivate() leaves the store Idle with a null timestamp, and no
\* animation frame (playback tick or deferred slider update) that fires while
\* the store is Idle writes a timestamp.
C17_DeactivateStops ==
  /\ [][deactivateTimelineMode => /\ ~isTimelineModeActive'
                                  /\ timelineTimestamp' = Null]_vars
  /\ [][(animationFrameFired /\ ~isTimelineModeActive /\ timelineTimestamp = Null)
          => timelineTimestamp' = Null]_vars

\* C18: whenever a dataset is loaded, 1 <= selectedDay <= tripTotalDays.
C18_SelectedDayInRange ==
  IsArray(segments) => /\ 1 <= selectedDay
                       /\ selectedDay <= tripTotalDays(List)

\* The day a segment starts in: day 1 is the first 24 h after the trip start
DayOf(list, segment) == ((GetTime(segment.startTime) - tripStartDate(list)) \div DayMs) + 1

\* The segments of the list that start in day N
StartingInDay(list, N) ==
  LET StartsInDay(segment) == DayOf(list, segment) = N
  IN SelectSeq(list, StartsInDay)

\* C19: in day-by-day view selectedDaySegments is the list of the segments
\* whose start lies in [tripStart + (N-1) * 24 h, tripStart + N * 24 h) for the
\* selected day N, so a segment that starts exactly 24 h after the trip start
\* belongs to day 2 and not to day 1.
C19_DaySegmentsHalfOpen ==
  (IsArray(segments) /\ viewMode = "day-by-day") =>
    selectedDaySegments(List, viewMode, selectedDay) = StartingInDay(List, selectedDay)

\* C19 witness: day-by-day view shows day 1 of a dataset with a segment that
\* starts exactly 24 h after the trip start, and leaves that segment out
C19_Witness ==
  /\ IsArray(segments) /\ viewMode = "day-by-day" /\ selectedDay = 1
  /\ \E k \in 1..Len(List) : GetTime(List[k].startTime) = tripStartDate(List) + DayMs
  /\ Len(selectedDaySegments(List, viewMode, selectedDay)) = 2

\* The loaded segments that start at or before the timestamp
StartedBy(list, timestamp) ==
  LET Started(segment) == IsNum(timestamp) /\ GetTime(segment.startTime) <= timestamp.v
  IN SelectSeq(list, Started)

\* C20: whatever search query and date range are set, timelineSegments is the
\* list of the segments that start at or before the current timestamp while
\* timeline mode is Active, and the list of all loaded segments while it is
\* Idle.
C20_TimelineIgnoresFilters ==
  /\ (isTimelineModeActive /\ timelineTimestamp # Null)
       => RevealedNow = StartedBy(List, timelineTimestamp)
  /\ ~isTimelineModeActive => RevealedNow = List

----------------------------------------------------------------------------
(* Properties of the statistics *)

\* The statistics in the current state
Stats ==
  [ points |-> currentPoints(List, dateRange, searchQuery, isTimelineModeActive,
                             timelineTimestamp),
    visits |-> currentVisits(List, dateRange, searchQuery, isTimelineModeActive,
                             timelineTimestamp),
    distance |-> currentDistance(List, dateRange, searchQuery, isTimelineModeActive,
                                 timelineTimestamp),
    miles |-> currentDistanceMiles(List, dateRange, searchQuery, isTimelineModeActive,
                                   timelineTimestamp),
    km |-> currentDistanceKm(List, dateRange, searchQuery, isTimelineModeActive,
                             timelineTimestamp) ]

\* The statistics of a list of segments: the sums of the path lengths and of
\* the meters, the number of visits, and the sum of the meters rounded once
StatsOf(revealed) ==
  LET meters == Sum([i \in 1..Len(revealed) |-> revealed[i].distanceMeters])
  IN [ points |-> Sum([i \in 1..Len(revealed) |-> Len(revealed[i].timelinePath)]),
       visits |-> Cardinality({ i \in 1..Len(revealed) : revealed[i].visit.present }),
       distance |-> meters,
       miles |-> (200 * meters + CentimetersPerMile) \div (2 * CentimetersPerMile),
       km |-> (2 * meters + MetersPerKm) \div (2 * MetersPerKm) ]

\* C21: the point count, visit count and distance are the sums over the
\* revealed segments (the segments started by the timestamp while Active, all
\* loaded segments while Idle), and the miles and km are the total meters
\* rounded once, whatever search query and date range are set.
C21_StatsOverRevealed ==
  Stats = StatsOf(IF isTimelineModeActive THEN RevealedNow ELSE List)

\* C21 witness: two segments are revealed in Active mode whose distances
\* rounded to miles one by one add up to another number than the statistic
C21_Witness ==
  /\ isTimelineModeActive /\ IsNum(timelineTimestamp)
  /\ Len(RevealedNow) = 2
  /\ Stats.points > 0
  /\ Stats.miles # Sum([i \in 1..Len(RevealedNow) |->
                         MathRound(100 * RevealedNow[i].distanceMeters, CentimetersPerMile)])

\* C22: with an empty segment list loaded, every statistic is 0, no segment
\* is revealed in the current state or at any clock position, the proximity
\* index (the store's and a rebuilt one) is empty, and the trip start and end
\* are the defaults TRIP_START_DATE and TRIP_END_DATE.
C22_EmptyDatasetSafe ==
  (IsArray(segments) /\ List = << >>) =>
    /\ Stats = [points |-> 0, visits |-> 0, distance |-> 0, miles |-> 0, km |-> 0]
    /\ RevealedNow = << >>
    /\ \A p \in PositionSamples : RevealedAt(p) = << >>
    /\ segmentDestinationCache = EmptyMap
    /\ buildDestinationCache(List, destinations) = EmptyMap
    /\ tripStartDate(List) = TRIP_START_DATE
    /\ tripEndDate(List) = TRIP_END_DATE

\* C22 witness: the empty list is loaded, timeline mode is Active at the
\* default trip start, and a search query and a date range are set
C22_Witness ==
  /\ IsArray(segments) /\ List = << >>
  /\ isTimelineModeActive /\ timelineTimestamp = Num(TRIP_START_DATE)
  /\ searchQuery # << >> /\ dateRange # << >>

----------------------------------------------------------------------------
(* Properties of the controls *)

\* The slider callbacks waiting for the next animation frame
PendingSliderCallbacks == { f \in rafQueue : f.cb = "slider" }

ClockSpeed == IF rendered = "toolbar" THEN playbackSpeed ELSE timelinePlayer.playbackSpeed
CycleStep == cycleSpeed \/ playerCycleSpeed

Skipped(position, delta) ==
  IF IsNum(position) THEN Num(Max2(0, Min2(Pct(100), position.v + Pct(delta)))) ELSE NaN

\* C25: skipForward (skipBackward) leaves the toolbar 5 percentage points
\* further (back), clamped to [0, 100], with the timestamp of that position
\* in the store, and leaves the play state and the pending tick as they were;
\* TimelinePlayer's position moves in the same way.
C25_SkipByFive ==
  /\ [][skipForward => /\ sliderValue' = Skipped(sliderValue, SkipStep)
                       /\ timelineTimestamp' = currentDate(sliderValue', List)
                       /\ isPlaying' = isPlaying /\ PendingTicks' = PendingTicks]_vars
  /\ [][skipBackward => /\ sliderValue' = Skipped(sliderValue, 0 - SkipStep)
                        /\ timelineTimestamp' = currentDate(sliderValue', List)
                        /\ isPlaying' = isPlaying /\ PendingTicks' = PendingTicks]_vars
  /\ [][playerSkipForward => /\ ClockPosition' = Skipped(ClockPosition, SkipStep)
                             /\ ClockIsPlaying' = ClockIsPlaying
                             /\ PendingTicks' = PendingTicks]_vars
  /\ [][playerSkipBackward => /\ ClockPosition' = Skipped(ClockPosition, 0 - SkipStep)
                              /\ ClockIsPlaying' = ClockIsPlaying
                              /\ PendingTicks' = PendingTicks]_vars

----------------------------------------------------------------------------
(* Properties of the media index *)

\* The timestamp lies in the closed interval of the segment
Within(segment, t) == GetTime(segment.startTime) <= t /\ t <= GetTime(segment.endTime)

\* C26: for a non-empty segment list and a valid timestamp,
\* assignSegmentIndex returns the index of the first segment whose closed
\* interval [startTime, endTime] contains the timestamp if there is one, and
\* otherwise the index of a segment whose startTime is nearest to it.
C26_AssignSegmentIndex ==
  (IsArray(segments) /\ Len(List) > 0) =>
    \A t \in 0..MaxTimestamp :
      LET r == assignSegmentIndex(List, Num(t)) + 1
      IN /\ r \in 1..Len(List)
         /\ IF \E k \in 1..Len(List) : Within(List[k], t)
            THEN /\ Within(List[r], t)
                 /\ \A j \in 1..(r - 1) : ~Within(List[j], t)
            ELSE \A j \in 1..Len(List) :
                   Abs(t - GetTime(List[r].startTime)) <= Abs(t - GetTime(List[j].startTime))

\* C26 witness: of two loaded segments the second is returned both for a
\* timestamp only it contains and for one outside both that is nearest to
\* its start, while the first contains another timestamp the second starts at
C26_Witness ==
  /\ IsArray(segments) /\ Len(List) = 2
  /\ \E t \in 0..MaxTimestamp :
       ~Within(List[1], t) /\ Within(List[2], t) /\ assignSegmentIndex(List, Num(t)) = 1
  /\ ~Within(List[1], MaxTimestamp) /\ ~Within(List[2], MaxTimestamp)
  /\ assignSegmentIndex(List, Num(MaxTimestamp)) = 1

----------------------------------------------------------------------------
(* Properties of the month colors *)

\* The loaded segments in reverse order
Reversed == [i \in 1..Len(List) |-> List[Len(List) + 1 - i]]

\* C27: for a non-empty dataset, monthColors is in multi-year mode exactly
\* when the start times lie in more than one year; in single-year mode the
\* colored months are the present ones, each with the palette color of its
\* month of the year; in multi-year mode every month of every observed year
\* has the palette color of the year's rank among the observed years, modulo
\* the 12 colors; and the result is the same for the segments in reverse
\* order.
C27_MonthColors ==
  (IsArray(segments) /\ Len(List) > 0) =>
    LET colors == monthColors(List)
        years == { getFullYear(List[i].startTime) : i \in 1..Len(List) }
        Rank(year) == Cardinality({ y \in years : y < year })
    IN /\ colors.isMultiYear <=>
            \E i, j \in 1..Len(List) :
              getFullYear(List[i].startTime) # getFullYear(List[j].startTime)
       /\ ~colors.isMultiYear =>
            /\ DOMAIN colors.colorMap =
                 { << getFullYear(List[i].startTime), getMonth(List[i].startTime) >> :
                   i \in 1..Len(List) }
            /\ \A key \in DOMAIN colors.colorMap : colors.colorMap[key] = key[2]
       /\ colors.isMultiYear =>
            /\ DOMAIN colors.colorMap = years \X (0..11)
            /\ \A key \in DOMAIN colors.colorMap :
                 colors.colorMap[key] = Rank(key[1]) % 12
       /\ monthColors(Reversed) = colors

\* C27 witness: the loaded dataset has a segment in each of 13 years, latest
\* first, so that the thirteenth year has the color of the first
C27_Witness ==
  /\ IsArray(segments) /\ Len(List) = 13
  /\ getFullYear(List[1].startTime) = getFullYear(List[13].startTime) + 12
  /\ monthColors(List).isMultiYear
  /\ monthColors(List).colorMap[<< getFullYear(List[1].startTime), 3 >>] = 0
  /\ monthColors(List).colorMap[<< getFullYear(List[13].startTime), 3 >>] = 0

----------------------------------------------------------------------------
(* Properties of the playback rate *)

\* C28: a playback tick leaves the position at the position before it plus
\* speed * 100 / (30 * 60), at most 100, whatever the trip duration is and
\* with the watcher of the timestamp run after the tick; the clock plays
\* after the tick exactly when that position is below 100. (From position 0
\* the clock then stops after 1800 / speed ticks.)
C28_TickIncrement ==
  [][FrameStep =>
       /\ IsNum(ClockPosition) /\ IsNum(ClockPosition')
       /\ ClockPosition'.v =
            Min2(Pct(100), ClockPosition.v + (ClockSpeed * Pct(100)) \div PlaybackFrames)
       /\ ClockIsPlaying' <=> ClockPosition'.v < Pct(100)]_vars

----------------------------------------------------------------------------
(* Properties of the proximity index as a function of its inputs *)

\* The index as determined by the segments and the destinations alone: the
\* keys are the start times of the segments with a destination nearby, and a
\* key maps to the nearby destinations of the last such segment
IndexOf(list, dests) ==
  LET near == { i \in 1..Len(list) : NearbyDests(list[i], dests) # {} }
      last(key) == CHOOSE i \in near :
                     /\ list[i].startTime = key
                     /\ \A j \in near : list[j].startTime = key => j <= i
  IN [key \in { list[i].startTime : i \in near } |-> NearbyDests(list[last(key)], dests)]

\* A step of loadData that builds the index
BuildStep ==
  /\ \E i \in 1..Len(loads) : \E data \in FeedDocuments : loadDataFetched(i, data)
  /\ IsArray(segments')

\* C29: the index buildDestinationCache builds is a function of the segment
\* list and the destination list (with the threshold of 50 km): in every
\* state a build gives the index these two determine, and the index a load
\* stores is the one its segments and the destinations determine, whatever
\* index the store held before.
C29_IndexDeterministic ==
  /\ [](IsArray(segments) =>
          buildDestinationCache(List, destinations) = IndexOf(List, destinations))
  /\ [][BuildStep => segmentDestinationCache' = IndexOf(List', destinations')]_vars

\* C29 witness: two loads have built the index one after the other, and the
\* second has left it non-empty
C29_Witness ==
  /\ Len(loads) = 2
  /\ \A i \in 1..2 : loads[i].fn = "loadData" /\ loads[i].pc = "media"
  /\ IsArray(segments) /\ segmentDestinationCache # EmptyMap

----------------------------------------------------------------------------
(* Properties of the reveal at the trip start *)

\* The segments that start at the earliest start time, in list order
AtTripStart ==
  LET First(seg) == \A i \in 1..Len(List) : seg.startTime <= List[i].startTime
  IN SelectSeq(List, First)

\* C30: with timeline mode active and the store's timestamp at the trip
\* start, the revealed segments are exactly those whose start time is the
\* trip start, and every destination in the index entries of these segments
\* is marked reached; activateTimelineMode and the toolbar's reset leave the
\* timestamp at the trip start, and activateTimelineMode leaves the mode
\* active.
C30_RevealAtStart ==
  /\ []((/\ IsArray(segments) /\ isTimelineModeActive
         /\ timelineTimestamp = Num(tripStartDate(List))) =>
          /\ RevealedNow = AtTripStart
          /\ \A i \in 1..Len(AtTripStart) :
               AtTripStart[i].startTime \in DOMAIN segmentDestinationCache =>
                 \A d \in segmentDestinationCache[AtTripStart[i].startTime] : ReachedNow[d])
  /\ [](IsArray(segments) => Reset(Toolbar).timelineTimestamp = Num(tripStartDate(List)))
  /\ [][(activateTimelineMode /\ IsArray(segments)) =>
          isTimelineModeActive' /\ timelineTimestamp' = Num(tripStartDate(List))]_vars

\* C30 witness: timeline mode is active at the trip start of two segments
\* with different start times; the first is revealed and the second is not,
\* and one destination is reached and the other is not
C30_Witness ==
  /\ IsArray(segments) /\ Len(List) = 2 /\ isTimelineModeActive
  /\ timelineTimestamp = Num(tripStartDate(List))
  /\ List[1].startTime < List[2].startTime
  /\ RevealedNow = << List[1] >>
  /\ \E d, e \in 1..Len(destinations) : ReachedNow[d] /\ ~ReachedNow[e]

----------------------------------------------------------------------------
(* Properties of the index build over coordinate strings that cannot be read *)

\* The string has two parts and both are numbers
WellFormed(str) == Len(str) >= 2 /\ str[1].num /\ str[2].num

\* The candidate strings of a segment: visit location, first and last path point
Candidates(segment) ==
  (IF segment.visit.present THEN { segment.visit.latLng } ELSE {})
  \cup { segment.timelinePath[k].point :
           k \in { j \in 1..Len(segment.timelinePath) : j \in {1, Len(segment.timelinePath)} } }

\* The destinations that a well-formed candidate of the segment is within 50 km of
NearByWellFormed(segment) ==
  { d \in 1..Len(destinations) :
      \E str \in Candidates(segment) :
        /\ WellFormed(str)
        /\ 11119 * Abs(str[1].val - destinations[d].location.lat) < 50000 }

\* Segments with a visit location or a path point that cannot be read, which
\* start after every segment of the datasets
MalformedSegments ==
  { Seg(MaxTimestamp + 1, MaxTimestamp + 1, vis, path, 0) :
      vis \in { NoVisit, Visit(OnePart(1)), Visit(BadLat), Visit(<< Tok(1), BadTok >>) },
      path \in { << >>, << Pt(LatLng(1)) >>, << Pt(BadLat), Pt(LatLng(9)) >>,
                 << Pt(LatLng(9)), Pt(OnePart(1)) >>, << Pt(BadLat) >>,
                 << Pt(BadLat), Pt(LatLng(1)), Pt(OnePart(9)) >> } }

\* C31: a build over the loaded segments and one more segment, whose
\* coordinate strings may be malformed, in first or in last place, maps that
\* segment to exactly the destinations that one of its well-formed candidate
\* points (visit location, first or last path point) is within 50 km of, and
\* gives the loaded segments the entries of a build without it.
C31_MalformedSkipped ==
  IsArray(segments) =>
    \A seg \in MalformedSegments :
      \A list \in { Append(List, seg), << seg >> \o List } :
        LET index == buildDestinationCache(list, destinations)
        IN /\ seg.startTime \in DOMAIN index <=> NearByWellFormed(seg) # {}
           /\ seg.startTime \in DOMAIN index => index[seg.startTime] = NearByWellFormed(seg)
           /\ [key \in DOMAIN index \ {seg.startTime} |-> index[key]] =
                buildDestinationCache(List, destinations)

\* C31 witness: the loaded default dataset has a segment whose visit location
\* cannot be read and whose path endpoint is near a destination, after a
\* segment near another destination; the index holds both
C31_Witness ==
  /\ IsArray(segments) /\ Len(List) = 2 /\ dataSource = "default"
  /\ List[2].visit.present /\ ~WellFormed(List[2].visit.latLng)
  /\ NearByWellFormed(List[2]) # {}
  /\ List[1].startTime # List[2].startTime
  /\ List[2].startTime \in DOMAIN segmentDestinationCache
  /\ segmentDestinationCache[List[2].startTime] = NearByWellFormed(List[2])
  /\ List[1].startTime \in DOMAIN segmentDestinationCache
  /\ segmentDestinationCache[List[1].startTime] # NearByWellFormed(List[2])

----------------------------------------------------------------------------
(* Properties of reset *)

\* A click on reset in either component
ResetStep == reset \/ playerReset

\* C32: reset() from any clock state leaves the clock paused at position 0
\* with no playback tick pending, and (toolbar) the store's timestamp at the
\* trip start.
C32_ResetRewinds ==
  [][ResetStep =>
       /\ ~ClockIsPlaying'
       /\ ClockPosition' = Num(0)
       /\ PendingTicks' = {}
       /\ rendered = "toolbar" => timelineTimestamp' = Num(tripStartDate(List))]_vars

----------------------------------------------------------------------------
(* Properties of the timestamp as a function of the position *)

\* C33: in every Active state of the mounted toolbar in which no slider
\* update is pending, the store's timestamp is the one of the position:
\* tripStart + position / 100 * (tripEnd - tripStart), in whole milliseconds,
\* with the trip bounds of the loaded dataset.
C33_TimestampOfPosition ==
  (/\ rendered = "toolbar" /\ mounted /\ IsArray(segments)
   /\ isTimelineModeActive /\ ~pendingSliderUpdate) =>
    /\ IsNum(sliderValue) /\ IsNum(timelineTimestamp)
    /\ timelineTimestamp.v =
         tripStartDate(List)
         + (sliderValue.v * (tripEndDate(List) - tripStartDate(List))) \div Pct(100)

----------------------------------------------------------------------------
(* Properties of the reached destinations against the segments themselves *)

\* C34: with timeline mode active, a destination is marked reached exactly
\* when a revealed segment has a well-formed candidate point (visit location,
\* first or last path point) within 50 km of it, also when segments share a
\* start time.
C34_ReachedIffNear ==
  (isTimelineModeActive /\ IsArray(segments)) =>
    \A d \in 1..Len(destinations) :
      ReachedNow[d] <=> \E seg \in Range(RevealedNow) : d \in NearByWellFormed(seg)

----------------------------------------------------------------------------
(* Properties of the month boundaries *)

\* Fraction a is less than fraction b; a fraction with denominator 0 is less
\* than none and none is less than it
FractionLess(a, b) == a.den > 0 /\ b.den > 0 /\ a.num * b.den < b.num * a.den

\* C35: the boundary markers of the loaded dataset are listed with strictly
\* increasing percent values.
C35_BoundariesIncrease ==
  IsArray(segments) =>
    LET boundaries == monthBoundaries(List)
    IN \A i \in 1..Len(boundaries) : \A j \in 1..Len(boundaries) :
         i < j => FractionLess(boundaries[i].percent, boundaries[j].percent)

----------------------------------------------------------------------------
(* Properties of the day buckets *)

\* The days whose bucket, selectedDaySegments in day-by-day view, holds the
\* k-th loaded segment, among the days setSelectedDay can select
BucketsOf(k) ==
  { N \in 1..tripTotalDays(List) :
      \E j \in 1..Len(selectedDaySegments(List, "day-by-day", N)) :
        selectedDaySegments(List, "day-by-day", N)[j] = List[k] }

\* C36: every segment of the loaded dataset is in the day bucket of exactly
\* one day N with 1 <= N <= tripTotalDays.
C36_DaysPartition ==
  IsArray(segments) => \A k \in 1..Len(List) : Cardinality(BucketsOf(k)) = 1

----------------------------------------------------------------------------
(* Properties of the automatic stop *)

\* A tick that stops the playing clock at position 100
AutoStop ==
  FrameStep /\ ClockIsPlaying /\ ~ClockIsPlaying' /\ ClockPosition' = Num(Pct(100))

\* C37: after the tick that stops playback at position 100, the timestamp
\* last published is the trip end: in the toolbar the store's timestamp is
\* tripEndDate, every segment is revealed and every destination of an index
\* entry is reached; in TimelinePlayer the last timeUpdate event is the one of
\* position 100.
C37_StopPublishesEnd ==
  [][AutoStop =>
       IF rendered = "toolbar"
       THEN /\ timelineTimestamp' = Num(tripEndDate(List))
            /\ RevealedNow' = List
            /\ \A key \in DOMAIN segmentDestinationCache :
                 \A d \in segmentDestinationCache[key] : ReachedNow'[d]
       ELSE timelinePlayer'.timeUpdate = Pct(100)]_vars

----------------------------------------------------------------------------
(* Properties of the view modes *)

\* C38: in day-by-day view the clock is paused and no playback tick is
\* pending; in timeline view selectedDaySegments is empty.
C38_NoPlaybackInDayView ==
  /\ viewMode = "day-by-day" => ~ClockIsPlaying /\ PendingTicks = {}
  /\ (viewMode = "timeline" /\ IsArray(segments)) =>
       selectedDaySegments(List, viewMode, selectedDay) = << >>

\* C38 witness: the view was switched to day-by-day after the first tick of
\* a playback at 1x, while a slider update was pending
C38_Witness ==
  /\ viewMode = "day-by-day" /\ mounted
  /\ sliderValue = Num(Increment(1))
  /\ pendingSliderUpdate /\ rafQueue # {}

----------------------------------------------------------------------------
(* Properties of the loading flag *)

\* C39: loading is true while a load (loadData or loadCustomData) is
\* suspended at an await, also when loads overlap, and false once a load has
\* been started and every started load has completed.
C39_LoadingWhileInFlight ==
  /\ loads # << >> => loading
  /\ (latestLoad.started /\ loads = << >>) => ~loading

----------------------------------------------------------------------------
(* Properties of the segment index of a media item *)

\* C40: for every loaded segment list, the empty one included, and every
\* timestamp, invalid ones included, assignSegmentIndex returns an index i
\* with 0 <= i < number of segments.
C40_IndexValid ==
  IsArray(segments) =>
    \A mediaTime \in { Num(t) : t \in 0..MaxTimestamp } \cup { NaN } :
      /\ 0 <= assignSegmentIndex(List, mediaTime)
      /\ assignSegmentIndex(List, mediaTime) < Len(List)

====
